---------------------------- MODULE Spec2Model ----------------------------
(***************************************************************************)
(* GridSync hybrid carbon engine (src/maps/geo_estimator.py): the cached   *)
(* layer loaders, the scalar query compute_green_score and the batch query *)
(* predict_grid_batch.                                                     *)
(*                                                                         *)
(* Numbers.  Python floats are modelled in fixed point:                    *)
(*   - carbon intensities (gCO2/kWh) in units of 1/10000 g, so that the    *)
(*     3-decimal rounding of the scalar response is a real conversion;     *)
(*   - fractions (fuel shares, trend coefficients) in units of 1/10000, so *)
(*     pct_change_per_year (a percentage with 2 decimals) and pct / 100    *)
(*     are the same integer;                                               *)
(*   - NaN is the sentinel NaN, propagated as numpy / Python do.           *)
(* Geometry.  Every location lies on one meridian; a position is a         *)
(* latitude in tenths of a degree, so great-circle and the code's planar   *)
(* distance coincide: 11 km per step.  A zone polygon is an interval whose *)
(* end points are its boundary.                                            *)
(***************************************************************************)
EXTENDS Integers, Sequences, FiniteSets, TLC

----------------------------------------------------------------------------
(* Arithmetic helpers *)

NaN == 0 - 1073741824
IsNaN(x) == x = NaN

Abs(x) == IF x < 0 THEN 0 - x ELSE x

Max2(a, b) == IF a >= b THEN a ELSE b

Min2(a, b) == IF a <= b THEN a ELSE b

\* integer division truncating toward zero (fixed-point image of float division)
Quot(a, b) ==
    IF b = 0 THEN NaN
    ELSE LET q == Abs(a) \div Abs(b)
         IN IF (a < 0) = (b < 0) THEN q ELSE 0 - q

\* round-to-nearest division, halves away from zero (Python round on a quotient)
RoundDiv(a, b) ==
    LET q == (2 * Abs(a) + Abs(b)) \div (2 * Abs(b))
    IN IF (a < 0) = (b < 0) THEN q ELSE 0 - q

RECURSIVE Gcd(_, _)
Gcd(a, b) == IF b = 0 THEN a ELSE Gcd(b, a % b)

\* a rational <<n, d>> in lowest terms with d > 0
Rat(n, d) ==
    LET g == Gcd(Abs(n), Abs(d))
        s == IF d < 0 THEN 0 - 1 ELSE 1
    IN IF n = 0 THEN <<0, 1>> ELSE <<s * (n \div g), s * (d \div g)>>

RECURSIVE SumSeq(_)
SumSeq(s) == IF s = <<>> THEN 0 ELSE Head(s) + SumSeq(Tail(s))

RECURSIVE SetToSortedSeq(_)
SetToSortedSeq(S) ==
    IF S = {} THEN <<>>
    ELSE LET m == CHOOSE x \in S : \A y \in S : x <= y
         IN <<m>> \o SetToSortedSeq(S \ {m})

\* units per gCO2/kWh and per unit fraction
CiUnit == 10 * 1000
FracUnit == 10 * 1000

\* round(x, 3) of an intensity: the nearest multiple of 1/1000 g
Round3(x) == IF IsNaN(x) THEN NaN ELSE RoundDiv(x, 10) * 10

\* round(x, 2) of an intensity
Round2(x) == IF IsNaN(x) THEN NaN ELSE RoundDiv(x, 100) * 100

\* Python max(0.0, x): a NaN second argument never compares greater, so 0.0 stays
PyMax0(x) == IF IsNaN(x) THEN 0 ELSE Max2(0, x)

\* numpy.maximum(x, 0.0): NaN propagates
NpMax0(x) == IF IsNaN(x) THEN NaN ELSE Max2(0, x)

----------------------------------------------------------------------------
(* Source data: the files the loaders read.  A data set is the content of  *)
(* a source file; the catalogue below is the set of contents the model     *)
(* draws from.                                                             *)

\* one raw CSV row of electricity-generation_emissions_sources (the columns used)
Row(n, ty, y, iso, la, e, c) ==
    [source_name |-> n, source_type |-> ty, year |-> y, iso3_country |-> iso,
     lat |-> la, emissions_quantity |-> e, capacity |-> c]

\* source_name values in pandas' groupby (sorted) order
PlantOrder == <<"de_coal", "de_gas", "fr_nuc", "gb_gas", "xk_coal", "xk_lign">>

PowerData(d) ==
    IF d = 1 THEN
      << Row("fr_nuc",  "nuclear", 2023, "FRA", 18, 4, 900),
         Row("fr_nuc",  "nuclear", 2024, "FRA", 18, 4, 900),
         Row("fr_nuc",  "nuclear", 2025, "FRA", 18, 4, 900),
         Row("de_coal", "coal",    2023, "DEU", 78, 100, 500),
         Row("de_coal", "coal",    2024, "DEU", 78, 90, 500),
         Row("de_coal", "coal",    2025, "DEU", 78, 50, 500),
         Row("de_coal", "coal",    2025, "DEU", 78, 30, 500),
         Row("de_coal", "coal",    2025, "DEU", 78, NaN, 500),
         Row("de_gas",  "gas",     2024, "DEU", 95, 40, 0),
         Row("de_gas",  "gas",     2025, "DEU", 95, 40, 0),
         Row("gb_gas",  "gas",     2023, "GBR", 140, 10, 300),
         Row("gb_gas",  "gas",     2024, "GBR", 140, 40, 300),
         Row("gb_gas",  "gas",     2025, "GBR", 140, 45, 300),
         Row("gb_gas",  "gas",     2025, "GBR", NaN, 45, 300),
         Row("xk_coal", "coal",    2023, "XKX", 0 - 400, 110, NaN),
         Row("xk_coal", "coal",    2024, "XKX", 0 - 400, 100, NaN),
         Row("xk_coal", "coal",    2025, "XKX", 0 - 400, 10, NaN),
         Row("xk_lign", "coal",    2023, "XKX", 0 - 300, 110, 200),
         Row("xk_lign", "coal",    2024, "XKX", 0 - 300, 100, 200),
         Row("xk_lign", "coal",    2025, "XKX", 0 - 300, 90, 200) >>
    ELSE
      << Row("de_coal", "coal",    2023, "DEU", 78, 60, 500),
         Row("de_coal", "coal",    2024, "DEU", 78, 60, 500),
         Row("de_coal", "coal",    2025, "DEU", 78, 60, 500),
         Row("gb_gas",  "gas",     2024, "GBR", 140, 40, 300),
         Row("gb_gas",  "gas",     2025, "GBR", 140, 20, 300) >>

----------------------------------------------------------------------------
(* load_power_plants: the cold path (read, reduce, fit trends) *)

\* a dropna on the coordinates alone
DropNaCoords(raw) ==
    SelectSeq(raw, LAMBDA r : ~IsNaN(r.lat))

\* raw.dropna(subset=['lat', 'lon', 'emissions_quantity'])
DropNa(raw) ==
    SelectSeq(raw, LAMBDA r : ~IsNaN(r.lat) /\ ~IsNaN(r.emissions_quantity))

\* raw['year'].max()
LatestYear(raw) ==
    CHOOSE y \in {raw[i].year : i \in DOMAIN raw} :
        \A i \in DOMAIN raw : raw[i].year <= y

\* the sum of the emissions column over a group of rows
SumEmissions(rows) == SumSeq([i \in DOMAIN rows |-> rows[i].emissions_quantity])

\* pandas 'first': the first non-null capacity of the group (NaN when all are null)
FirstCapacity(rows) ==
    LET ok == SelectSeq(rows, LAMBDA r : ~IsNaN(r.capacity))
    IN IF ok = <<>> THEN NaN ELSE ok[1].capacity

MAX_B == 1500

\* np.clip(b, -MAX_B, MAX_B) of the rational num / den (den > 0), as a fraction
\* in units of 1/10000
ClipNorm(num, den) ==
    IF num * 20 >= 3 * den THEN MAX_B
    ELSE IF num * 20 <= 0 - 3 * den THEN 0 - MAX_B
    ELSE Quot(num * FracUnit, den)

\* b_raw of lines 242-255 for one pivot row, as a rational: the years are
\* centred on t_mean, the mean over every column of the pivot, the emissions
\* on the nanmean of the plant's own years, and the numerator and the
\* denominator run over the plant's own years
PlantBRaw(T, base, E) ==
    LET n   == Len(T)
        V   == DOMAIN E
        m   == Cardinality(V)
        Vs  == SetToSortedSeq(V)
        St  == SumSeq([i \in DOMAIN T |-> T[i] - base])
        Se  == SumSeq([i \in DOMAIN Vs |-> E[Vs[i]]])
        Nmn == SumSeq([i \in DOMAIN Vs |->
                       (m * E[Vs[i]] - Se) * (n * (Vs[i] - base) - St)])
        Dnn == SumSeq([i \in DOMAIN Vs |->
                       (n * (Vs[i] - base) - St) * (n * (Vs[i] - base) - St)])
    IN IF Dnn > 0 THEN Rat(n * Nmn, m * Dnn) ELSE <<0, 1>>

\* The per-plant fit of lines 238-266 for one pivot row.
\*   T  : trend_years, the pivot's columns;  base : BASELINE
\*   E  : the plant's annual emissions, a function on its years with data
\* t_mean is the mean over every column, e_mean the nanmean over the plant's
\* own years; the numerator and the denominator run over the plant's years.
PlantTrendB(T, base, E) ==
    LET n   == Len(T)
        V   == DOMAIN E
        m   == Cardinality(V)
        Vs  == SetToSortedSeq(V)
        St  == SumSeq([i \in DOMAIN T |-> T[i] - base])
        Se  == SumSeq([i \in DOMAIN Vs |-> E[Vs[i]]])
        \* numerator * m * n  and  denominator * n * n
        Nmn == SumSeq([i \in DOMAIN Vs |->
                       (m * E[Vs[i]] - Se) * (n * (Vs[i] - base) - St)])
        Dnn == SumSeq([i \in DOMAIN Vs |->
                       (n * (Vs[i] - base) - St) * (n * (Vs[i] - base) - St)])
        \* b_raw = numerator / denominator where denominator > 0, else 0.0
        braw == PlantBRaw(T, base, E)
        \* c_vals = e_mean - b_raw * t_mean
        c    == Rat(Se * braw[2] * n - braw[1] * St * m, m * braw[2] * n)
        \* e_current: c, or max(|e_mean|, 1) where |c| < 1
        ecur == IF Abs(c[1]) < c[2] THEN Rat(Max2(Abs(Se), m), m) ELSE c
        \* b_norm = b_raw / e_current
        bn   == Rat(braw[1] * ecur[2], braw[2] * ecur[1])
    IN ClipNorm(bn[1], bn[2])

\* plant_trends[name]['b'] for every plant with a row in a complete year
PlantTrends(raw, tmax) ==
    LET hist  == SelectSeq(raw, LAMBDA r : r.year <= tmax)
        T     == SetToSortedSeq({hist[i].year : i \in DOMAIN hist})
        names == {hist[i].source_name : i \in DOMAIN hist}
        E(nm) == LET ys == {hist[i].year : i \in {j \in DOMAIN hist : hist[j].source_name = nm}}
                 IN [y \in ys |->
                       SumEmissions(SelectSeq(hist, LAMBDA r : r.source_name = nm /\ r.year = y))]
    IN [nm \in names |-> PlantTrendB(T, tmax, E(nm))]

\* trend_years (line 238): the columns of the pivot, every complete year in
\* which some plant has a row
TrendYears(raw, tmax) ==
    SetToSortedSeq({raw[i].year : i \in {j \in DOMAIN raw : raw[j].year <= tmax}})

\* one row of the pivot (lines 227-237): the plant's annual emissions, a
\* function on its complete years with data
PivotRow(raw, tmax, nm) ==
    LET mine == SelectSeq(raw, LAMBDA r : r.source_name = nm /\ r.year <= tmax)
    IN [y \in {mine[i].year : i \in DOMAIN mine} |->
          SumEmissions(SelectSeq(mine, LAMBDA r : r.year = y))]

\* b_raw (line 255) for every row of the pivot
PlantBRaws(raw, tmax) ==
    [nm \in {raw[i].source_name : i \in {j \in DOMAIN raw : raw[j].year <= tmax}} |->
        PlantBRaw(TrendYears(raw, tmax), tmax, PivotRow(raw, tmax, nm))]

\* the least-squares slope of lines 191-195, ss_xy / ss_xx with both means
\* taken over the fitted points themselves, as a rational
OlsSlope(E) ==
    LET V   == DOMAIN E
        m   == Cardinality(V)
        Vs  == SetToSortedSeq(V)
        Sx  == SumSeq(Vs)
        Sy  == SumSeq([i \in DOMAIN Vs |-> E[Vs[i]]])
        Sxy == SumSeq([i \in DOMAIN Vs |-> (m * Vs[i] - Sx) * (m * E[Vs[i]] - Sy)])
        Sxx == SumSeq([i \in DOMAIN Vs |-> (m * Vs[i] - Sx) * (m * Vs[i] - Sx)])
    IN IF Sxx > 0 THEN Rat(Sxy, Sxx) ELSE <<0, 1>>

\* one row of POWER_PLANTS_DF: the latest year's rows of a plant reduced
\* (first / sum) with the trend coefficient attached (0.0 when none was fitted)
PlantRow(rows, trends) ==
    [source_name |-> rows[1].source_name,
     source_type |-> rows[1].source_type,
     iso3_country |-> rows[1].iso3_country,
     lat |-> rows[1].lat,
     emissions_quantity |-> SumEmissions(rows),
     capacity |-> FirstCapacity(rows),
     trend_b |-> IF rows[1].source_name \in DOMAIN trends
                 THEN trends[rows[1].source_name] ELSE 0]

\* POWER_PLANTS_DF of the cold path
BuildPlantTable(raw0) ==
    LET raw    == DropNa(raw0)
        latest == LatestYear(raw)
        trends == PlantTrends(raw, latest - 1)
        cur    == SelectSeq(raw, LAMBDA r : r.year = latest)
        names  == SelectSeq(PlantOrder,
                            LAMBDA nm : \E i \in DOMAIN cur : cur[i].source_name = nm)
    IN [k \in DOMAIN names |->
          PlantRow(SelectSeq(cur, LAMBDA r : r.source_name = names[k]), trends)]

\* One COUNTRY_TRENDS record (lines 190-218): the OLS slope of the country's
\* annual totals over its complete years, as a percentage of the fitted value
\* at the latest year.  pct_change_per_year is round(.., 2) of a percentage.
CountryTrend(E, latest) ==
    LET V   == DOMAIN E
        m   == Cardinality(V)
        Vs  == SetToSortedSeq(V)
        Sx  == SumSeq(Vs)
        Sy  == SumSeq([i \in DOMAIN Vs |-> E[Vs[i]]])
        Sxy == SumSeq([i \in DOMAIN Vs |-> (m * Vs[i] - Sx) * (m * E[Vs[i]] - Sy)])
        Sxx == SumSeq([i \in DOMAIN Vs |-> (m * Vs[i] - Sx) * (m * Vs[i] - Sx)])
        slope == IF Sxx > 0 THEN Rat(Sxy, Sxx) ELSE <<0, 1>>
        \* current = slope * latest + (y_mean - slope * x_mean)
        cur == Rat(slope[1] * (m * latest - Sx) * 1 + Sy * slope[2], m * slope[2])
        den == IF Abs(cur[1]) < cur[2] THEN <<1, 1>> ELSE <<Abs(cur[1]), cur[2]>>
        pct == Rat(slope[1] * den[2], slope[2] * den[1])
        tol == Rat(Abs(cur[1]), cur[2] * 100)
    IN [pct_change_per_year |-> RoundDiv(pct[1] * FracUnit, pct[2]),
        trend |-> IF slope[1] * tol[2] < 0 - tol[1] * slope[2] THEN "improving"
                  ELSE IF slope[1] * tol[2] > tol[1] * slope[2] THEN "worsening"
                  ELSE "stable"]

\* the COUNTRY_TRENDS entries the cold path computes: one per country with at
\* least two complete years
BuildCountryTrends(raw0) ==
    LET raw    == DropNa(raw0)
        latest == LatestYear(raw)
        hist   == SelectSeq(raw, LAMBDA r : r.year <= latest - 1)
        Ys(c)  == {hist[i].year : i \in {j \in DOMAIN hist : hist[j].iso3_country = c}}
        isos   == {c \in {hist[i].iso3_country : i \in DOMAIN hist} : Cardinality(Ys(c)) >= 2}
    IN [c \in isos |->
          CountryTrend([y \in Ys(c) |->
                          SumEmissions(SelectSeq(hist,
                              LAMBDA r : r.iso3_country = c /\ r.year = y))],
                       latest)]

----------------------------------------------------------------------------
(* The other layers' sources and their builders *)

\* Optional values (Python None / a loaded table): <<>> or <<value>>
Nil == <<>>
Some(x) == <<x>>
IsSome(o) == o # <<>>
Get(o) == o[1]

\* load_fossil_ops: one source file's rows reduced to its latest year's assets
\* (lines 342-351); the rows are [source_name, year, lat, emissions_quantity]
FossilData(file, d) ==
    IF file = "coal" THEN
        IF d = 1 THEN << [source_name |-> "mine_a", year |-> 2024, lat |-> 70, emissions_quantity |-> 5],
                         [source_name |-> "mine_a", year |-> 2025, lat |-> 70, emissions_quantity |-> 6],
                         [source_name |-> "mine_b", year |-> 2025, lat |-> NaN, emissions_quantity |-> 6] >>
        ELSE << [source_name |-> "mine_a", year |-> 2025, lat |-> 70, emissions_quantity |-> 9],
                [source_name |-> "mine_c", year |-> 2025, lat |-> 110, emissions_quantity |-> 2] >>
    ELSE IF file = "refining" THEN
        << [source_name |-> "ref_a", year |-> 2025, lat |-> 135, emissions_quantity |-> 3] >>
    ELSE << [source_name |-> "field_a", year |-> 2025, lat |-> 30, emissions_quantity |-> 1] >>

FossilOrder == <<"field_a", "mine_a", "mine_b", "mine_c", "ref_a">>

BuildFossilFile(raw0, label) ==
    LET raw    == DropNa(raw0)
        latest == LatestYear(raw)
        cur    == SelectSeq(raw, LAMBDA r : r.year = latest)
        names  == SelectSeq(FossilOrder,
                            LAMBDA nm : \E i \in DOMAIN cur : cur[i].source_name = nm)
    IN [k \in DOMAIN names |->
          LET rows == SelectSeq(cur, LAMBDA r : r.source_name = names[k])
          IN [source_name |-> names[k], lat |-> rows[1].lat, sector |-> label,
              emissions_quantity |-> SumEmissions(rows)]]

\* load_renewables: the WRI rows [name, primary_fuel, capacity_mw, latitude]
RenewData(d) ==
    IF d = 1 THEN
      << [name |-> "fr_hydro", primary_fuel |-> "Hydro", capacity_mw |-> 20, latitude |-> 22],
         [name |-> "gb_wind",  primary_fuel |-> "Wind",  capacity_mw |-> 10, latitude |-> 150],
         [name |-> "de_lign",  primary_fuel |-> "Coal",  capacity_mw |-> 70, latitude |-> 80],
         [name |-> "gb_tidal", primary_fuel |-> "Wave and Tidal", capacity_mw |-> 0, latitude |-> 142],
         [name |-> "fr_sun",   primary_fuel |-> "Solar", capacity_mw |-> NaN, latitude |-> 25] >>
    ELSE
      << [name |-> "gb_wind",  primary_fuel |-> "Wind",  capacity_mw |-> 15, latitude |-> 150] >>

\* fuel_map of load_renewables; its domain is clean_fuels
RenewFuelMap ==
    [f \in {"Solar", "Wind", "Hydro", "Nuclear", "Geothermal", "Wave and Tidal"} |->
        CASE f = "Hydro" -> "hydroelectricity"
          [] f = "Nuclear" -> "nuclear"
          [] f = "Solar" -> "solar"
          [] f = "Wind" -> "wind"
          [] f = "Geothermal" -> "geothermal"
          [] OTHER -> "hydroelectricity"]

\* RENEW_PLANTS_DF of the cold path (lines 403-418)
BuildRenewTable(raw) ==
    LET keep == SelectSeq(raw, LAMBDA r :
                    /\ r.primary_fuel \in DOMAIN RenewFuelMap
                    /\ ~IsNaN(r.latitude) /\ ~IsNaN(r.capacity_mw)
                    /\ r.capacity_mw > 0)
    IN [k \in DOMAIN keep |->
          [name |-> keep[k].name, fuel_cat |-> RenewFuelMap[keep[k].primary_fuel],
           capacity_mw |-> keep[k].capacity_mw, latitude |-> keep[k].latitude]]

\* fuel_ef_defaults of load_emaps_zones (gCO2/kWh)
FuelEfDefaults ==
    [f \in {"coal", "gas", "oil", "biomass", "nuclear", "hydro", "wind", "solar",
            "geothermal", "unknown"} |->
        CASE f = "coal" -> 995 [] f = "gas" -> 490 [] f = "oil" -> 816
          [] f = "biomass" -> 230 [] f = "nuclear" -> 29 [] f = "hydro" -> 26
          [] f = "wind" -> 26 [] f = "solar" -> 48 [] f = "geothermal" -> 38
          [] OTHER -> 475]

\* The zone YAML files of a version of the zones directory, in glob order:
\* [key, center (latitude), mix: fuel -> share in 1/10000]; an empty mix is a
\* zone without fallbackZoneMixes.
ZoneData(d) ==
    IF d = 0 THEN <<>> ELSE
    << [key |-> "FR", center |-> 20,
        mix |-> [f \in {"nuclear", "gas", "hydro"} |->
                    CASE f = "nuclear" -> 7000 [] f = "gas" -> 600 [] OTHER -> 1211]],
       [key |-> "XX", center |-> 52, mix |-> <<>>],
       [key |-> "DE", center |-> 80,
        mix |-> [f \in {"coal", "gas", "wind"} |->
                    CASE f = "coal" -> 3000 [] f = "gas" -> 2000 [] OTHER -> 5000]],
       [key |-> "GB", center |-> 145,
        mix |-> IF d = 1
                THEN [f \in {"gas", "wind", "nuclear"} |->
                        CASE f = "gas" -> 1500 [] f = "wind" -> 6000 [] OTHER -> 2500]
                ELSE [f \in {"gas", "wind"} |->
                        CASE f = "gas" -> 6000 [] OTHER -> 4000]] >>

\* zone_ci = sum of ratio * emission factor over the positive shares (lines 523-535)
ZoneMixCi(mix) ==
    LET F  == {f \in DOMAIN mix : mix[f] > 0}
        RECURSIVE Acc(_)
        Acc(S) == IF S = {} THEN 0
                  ELSE LET f == CHOOSE x \in S : TRUE
                       IN mix[f] * (IF f \in DOMAIN FuelEfDefaults
                                    THEN FuelEfDefaults[f] ELSE 475)
                          + Acc(S \ {f})
    IN Acc(F)

\* EMAPS_ZONE_KEYS / centre coordinates / EMAPS_ZONE_CI of the cold path: the
\* zones whose estimate is > 0, as rows [key, center, ci]
BuildZoneTable(files) ==
    LET keep == SelectSeq(files, LAMBDA z : ZoneMixCi(z.mix) > 0)
    IN [k \in DOMAIN keep |->
          [key |-> keep[k].key, center |-> keep[k].center, ci |-> ZoneMixCi(keep[k].mix)]]

\* world.geojson: the zone boundary polygons in feature order.  A polygon is
\* the interval lo..hi on the meridian; lo and hi are its boundary.
WorldGeo ==
    << [zoneName |-> "FR", lo |-> 0,   hi |-> 40],
       [zoneName |-> "XX", lo |-> 45,  hi |-> 60],
       [zoneName |-> "DE", lo |-> 60,  hi |-> 100],
       [zoneName |-> "GB", lo |-> 130, hi |-> 160] >>

\* global_energy_mix.json (carbon_intensity in 1/10000 g) and
\* carbon_intensity_per_source.json (g), when configured
MixData ==
    [c \in {"FRA", "DEU", "GBR"} |->
        [carbon_intensity |-> CASE c = "FRA" -> 56 * CiUnit
                                [] c = "DEU" -> 380 * CiUnit + 5000
                                [] OTHER -> 230 * CiUnit]]

FuelData ==
    [f \in {"coal", "natural_gas", "petroleum", "nuclear", "hydroelectricity",
            "solar", "wind", "geothermal", "world_average"} |->
        CASE f = "coal" -> 995 [] f = "natural_gas" -> 743 [] f = "petroleum" -> 816
          [] f = "nuclear" -> 29 [] f = "hydroelectricity" -> 26 [] f = "solar" -> 48
          [] f = "wind" -> 26 [] f = "geothermal" -> 38 [] OTHER -> 475]

\* trained_model.json: features, scaler_mean, scaler_scale, coefficients (in
\* hundredths) and intercept (1/10000 g)
ModelData(d) ==
    IF d = 1 THEN
        [features |-> <<"country_ci", "local_pct_coal", "emaps_zone_ci", "state_ci",
                        "n_dcs_300km">>,
         scaler_mean |-> <<0, 0, 0, 0, 0>>,
         scaler_scale |-> <<1, 1, 1, 1, 1>>,
         coefficients |-> <<50, 20000, 30, 20, 700>>,
         intercept |-> 0 - 60 * CiUnit]
    ELSE
        [features |-> <<"idw_weighted_ci", "country_ci", "local_trend_x_ci",
                        "emissions_per_capacity", "local_pct_clean",
                        "mean_emissions_per_plant", "abs_lat", "is_gcp",
                        "country_trend_pct">>,
         scaler_mean |-> <<100 * CiUnit, 0, 0, 0, 5000, 0, 0, 0, 0>>,
         scaler_scale |-> <<2, 1, 1, 1, 1, 1, 1, 1, 1>>,
         coefficients |-> <<40, 70, 100, 300, 0 - 2000, 100, 500, 900, 10>>,
         intercept |-> 20 * CiUnit]

----------------------------------------------------------------------------
(* The process state: the module globals of geo_estimator.py, the files on *)
(* disk, and what the last calls returned.                                 *)

VARIABLES
    CODECARBON_MIX,     \* iso3 -> country profile ({} before load_codecarbon)
    FUEL_WEIGHTS,       \* fuel -> gCO2/kWh
    REGRESSION_MODEL,   \* Nil (the empty dict) or Some(model)
    POWER_PLANTS_DF,    \* Nil or Some(table); POWER_TREE indexes the same rows
    COUNTRY_TRENDS,     \* iso3 -> trend record
    FOSSIL_OPS_DF,      \* Nil or Some(table); FOSSIL_TREE indexes the same rows
    RENEW_PLANTS_DF,    \* Nil or Some(table); RENEW_TREE indexes the same rows
    EMAPS_ZONES,        \* Nil or Some(rows): EMAPS_ZONE_TREE / _KEYS / _CI
    ZONE_POLYGONS,      \* Nil or Some(polygons): ZONE_POLYGONS / _NAMES / ZONE_POLY_TREE
    ZONE_POLY_CI,       \* zone name -> intensity
    FUEL_CACHE,         \* _FUEL_CACHE: source_type -> fuel category
    disk,               \* the source files and cache artifacts
    loads,              \* the loader called last and the path it took
    lastCall, lastOut,  \* the most recent query and its response
    race                \* two processes loading the power plants at once

vars == <<CODECARBON_MIX, FUEL_WEIGHTS, REGRESSION_MODEL, POWER_PLANTS_DF,
          COUNTRY_TRENDS, FOSSIL_OPS_DF, RENEW_PLANTS_DF, EMAPS_ZONES,
          ZONE_POLYGONS, ZONE_POLY_CI, FUEL_CACHE, disk, loads, lastCall, lastOut,
          race>>

\* the state loaded at startup, as one value
Loaded ==
    [mix |-> CODECARBON_MIX, fuel |-> FUEL_WEIGHTS, model |-> REGRESSION_MODEL,
     plants |-> POWER_PLANTS_DF, trends |-> COUNTRY_TRENDS, fossil |-> FOSSIL_OPS_DF,
     renew |-> RENEW_PLANTS_DF, zones |-> EMAPS_ZONES, polys |-> ZONE_POLYGONS,
     polyci |-> ZONE_POLY_CI]

----------------------------------------------------------------------------
(* Spatial queries *)

\* great-circle distance in metres between two latitudes on the meridian
DistM(a, b) == Abs(a - b) * 11119

\* a query that keeps only the outer 150 km of the disc
InOuterRing(lats, pos, radius_km) ==
    SetToSortedSeq({i \in DOMAIN lats :
                       /\ DistM(lats[i], pos) <= radius_km * 1000
                       /\ DistM(lats[i], pos) > (radius_km - 150) * 1000})

\* BallTree.query_radius(point, r = radius_km / 6371): row indices, ascending
InRadius(lats, pos, radius_km) ==
    SetToSortedSeq({i \in DOMAIN lats : DistM(lats[i], pos) <= radius_km * 1000})

\* BallTree.query(point, k=1): the index of a nearest row
NearestRow(lats, pos) ==
    CHOOSE i \in DOMAIN lats :
        \A j \in DOMAIN lats :
            \/ DistM(lats[i], pos) < DistM(lats[j], pos)
            \/ (DistM(lats[i], pos) = DistM(lats[j], pos) /\ i <= j)

\* the coordinate column each tree is built from
PlantLat(rows) == [i \in DOMAIN rows |-> rows[i].lat]
RenewLat(rows) == [i \in DOMAIN rows |-> rows[i].latitude]
ZoneLat(rows) == [i \in DOMAIN rows |-> rows[i].center]

\* shapely: polygon.contains(point), polygon intersects point, polygon.distance
\* (in tenths of a degree)
PolyContains(g, pos) == g.lo < pos /\ pos < g.hi
PolyIntersects(g, pos) == g.lo <= pos /\ pos <= g.hi
PolyDistance(g, pos) ==
    IF PolyIntersects(g, pos) THEN 0 ELSE Min2(Abs(pos - g.lo), Abs(pos - g.hi))

\* STRtree.nearest(point)
NearestPoly(polys, pos) ==
    CHOOSE i \in DOMAIN polys :
        \A j \in DOMAIN polys :
            \/ PolyDistance(polys[i], pos) < PolyDistance(polys[j], pos)
            \/ (PolyDistance(polys[i], pos) = PolyDistance(polys[j], pos) /\ i <= j)

\* ZONE_POLY_CI.get(zone name): NaN stands for None
PolyCiGet(zn) == IF zn \in DOMAIN ZONE_POLY_CI THEN ZONE_POLY_CI[zn] ELSE NaN

\* a nearest-polygon fallback that never resolves
NoNearPoly(polys, pos) == NaN

\* the nearest-polygon fallback: within 0.5 degree (lines 817-823, 691-701)
NearPolyCi(polys, pos) ==
    LET ni == NearestPoly(polys, pos)
    IN IF PolyDistance(polys[ni], pos) < 5 THEN PolyCiGet(polys[ni].zoneName) ELSE NaN

\* compute_green_score's polygon lookup (lines 805-823 and again 968-985):
\* the first candidate containing the point decides, with or without an
\* estimate; NaN when nothing resolves
ScalarZoneCi(pos) ==
    IF ~IsSome(ZONE_POLYGONS) THEN NaN
    ELSE LET polys == Get(ZONE_POLYGONS)
             hit   == {i \in DOMAIN polys : PolyContains(polys[i], pos)}
             first == CHOOSE i \in hit : \A j \in hit : i <= j
             inCi  == IF hit = {} THEN NaN ELSE PolyCiGet(polys[first].zoneName)
         IN IF IsNaN(inCi) THEN NearPolyCi(polys, pos) ELSE inCi

\* batch_zone_ci for one point (lines 669-703): the first intersecting
\* polygon that has an estimate, else the nearest-polygon fallback
BatchZoneCi(pos) ==
    IF ~IsSome(ZONE_POLYGONS) \/ DOMAIN ZONE_POLY_CI = {} THEN NaN
    ELSE LET polys == Get(ZONE_POLYGONS)
             hit   == {i \in DOMAIN polys :
                         /\ PolyIntersects(polys[i], pos)
                         /\ ~IsNaN(PolyCiGet(polys[i].zoneName))}
             first == CHOOSE i \in hit : \A j \in hit : i <= j
         IN IF hit = {} THEN NearPolyCi(polys, pos)
            ELSE PolyCiGet(polys[first].zoneName)

----------------------------------------------------------------------------
(* Fuel classification *)

\* which of classify_fuel's keywords occur in the lower-cased source type
HasKeyword(source_type, k) ==
    CASE source_type = "coal"    -> k = "coal"
      [] source_type = "gas"     -> k = "gas"
      [] source_type = "nuclear" -> k = "nuclear"
      [] source_type = "biogas"  -> k \in {"gas", "bio"}
      [] OTHER -> FALSE

\* classify_fuel (lines 730-751)
classify_fuel(source_type) ==
    LET has(K) == \E k \in K : HasKeyword(source_type, k)
    IN  IF has({"coal"}) THEN "coal"
        ELSE IF has({"gas", "ccgt", "ocgt"}) THEN "natural_gas"
        ELSE IF has({"oil", "petrol", "diesel", "petroleum"}) THEN "petroleum"
        ELSE IF has({"solar", "pv"}) THEN "solar"
        ELSE IF has({"wind"}) THEN "wind"
        ELSE IF has({"hydro", "water"}) THEN "hydroelectricity"
        ELSE IF has({"nuclear"}) THEN "nuclear"
        ELSE IF has({"geotherm"}) THEN "geothermal"
        ELSE "fossil"

\* _classify_fuel_cached (lines 1281-1288) against a cache value
ClassifyCached(cache, source_type) ==
    IF source_type \in DOMAIN cache THEN cache[source_type]
    ELSE classify_fuel(source_type)

\* _FUEL_CACHE after classifying every row of the plant table
FuelCacheAfter(cache, rows) ==
    [t \in DOMAIN cache \cup {rows[i].source_type : i \in DOMAIN rows} |->
        ClassifyCached(cache, t)]

FossilCats == {"coal", "natural_gas", "petroleum", "fossil"}

\* FUEL_WEIGHTS.get("world_average", 475), in g
WorldAvg ==
    IF "world_average" \in DOMAIN FUEL_WEIGHTS THEN FUEL_WEIGHTS["world_average"] ELSE 475

\* FUEL_WEIGHTS.get(fc, default), in g
FuelCi(fc, default) == IF fc \in DOMAIN FUEL_WEIGHTS THEN FUEL_WEIGHTS[fc] ELSE default

----------------------------------------------------------------------------
(* Feature arithmetic shared by the two query paths *)

\* w = 1 / dk_km^2 with dk_km = max(d * 6371, 1.0), scaled by 100000
IdwWeight(a, b) ==
    LET dk == Max2(DistM(a, b) \div 1000, 1)
    IN 100000 \div (dk * dk)

Fill(x, v) == IF IsNaN(x) THEN v ELSE x

\* sum(w * ci) / sum(w) as an intensity, 0.0 when the weights sum to 0
WeightedCi(ws, cis) ==
    LET den == SumSeq(ws)
        num == SumSeq([k \in DOMAIN ws |-> ws[k] * cis[k]])
    IN IF den > 0 THEN Quot(num, den) * CiUnit ELSE 0

\* local_trend_b * base_ci
TrendTimesCi(b, ci) == IF IsNaN(ci) THEN NaN ELSE Quot(b * Quot(ci, 100), 100)

\* COUNTRY_TRENDS.get(iso, {}).get('pct_change_per_year', 0.0); trends is the
\* value of COUNTRY_TRENDS when the call runs
CountryPct(trends, iso) ==
    IF iso \in DOMAIN trends THEN trends[iso].pct_change_per_year ELSE 0

\* "Fallback to country-level linear if no local plants" (lines 1026-1029,
\* 1587-1589): taken whenever the local coefficient is exactly 0.0
TrendFallback(trends, b, iso) ==
    IF b = 0 /\ iso \in DOMAIN trends THEN CountryPct(trends, iso) ELSE b

\* nearest_iso in CODECARBON_MIX (lines 774-780, 1424-1428)
NearestCountry(pos) ==
    IF ~IsSome(POWER_PLANTS_DF) THEN "Unknown"
    ELSE LET rows == Get(POWER_PLANTS_DF)
             iso  == rows[NearestRow(PlantLat(rows), pos)].iso3_country
         IN IF iso \in DOMAIN CODECARBON_MIX THEN iso ELSE "Unknown"

\* CODECARBON_MIX[iso].get("carbon_intensity", nan), when iso is a profile
CountryCi(iso) ==
    IF iso \in DOMAIN CODECARBON_MIX
    THEN (IF "carbon_intensity" \in DOMAIN CODECARBON_MIX[iso]
          THEN CODECARBON_MIX[iso].carbon_intensity ELSE NaN)
    ELSE NaN

\* emaps_zone_ci (lines 987-994, 1602-1608): the polygon's estimate, else
\* the nearest zone centre's within 500 km, else 0.0
EmapsZoneCi(pos, polyCi) ==
    IF ~IsSome(EMAPS_ZONES) THEN 0
    ELSE LET zs == Get(EMAPS_ZONES)
             nz == NearestRow(ZoneLat(zs), pos)
         IN IF ~IsNaN(polyCi) THEN polyCi
            ELSE IF DistM(zs[nz].center, pos) < 500 * 1000 THEN zs[nz].ci
            ELSE 0

\* [feats_dict.get(f, 0.0) for f in features], standardised and scored
\* (lines 1071-1073, 1662-1669)
\* a vector that keeps only the declared names that are computed
ComputedOnly(model, feats) ==
    LET keep == SelectSeq(model.features, LAMBDA f : f \in DOMAIN feats)
    IN [i \in DOMAIN keep |-> feats[keep[i]]]

FeatureVector(model, feats) ==
    [i \in DOMAIN model.features |->
        IF model.features[i] \in DOMAIN feats THEN feats[model.features[i]] ELSE 0]

ModelScore(model, x) ==
    IF \E i \in DOMAIN x : IsNaN(x[i]) THEN NaN
    ELSE SumSeq([i \in DOMAIN x |->
                    Quot(model.coefficients[i] * (x[i] - model.scaler_mean[i]),
                         model.scaler_scale[i] * 100)])
         + model.intercept

\* the names both paths compute (the subset of feats_dict modelled)
FeatureNames ==
    {"country_ci", "emissions_per_capacity", "local_pct_coal", "local_pct_clean",
     "mean_emissions_per_plant", "abs_lat", "idw_weighted_ci", "emaps_zone_ci",
     "state_ci", "is_gcp", "country_trend_pct", "local_trend_x_ci"}

FeatsDict(trends, base_ci, state_ci, loc, pos, zone_ci, iso, trend_b) ==
    [f \in FeatureNames |->
        CASE f = "country_ci" -> base_ci
          [] f = "emissions_per_capacity" -> loc.emissions_per_capacity
          [] f = "local_pct_coal" -> loc.local_pct_coal
          [] f = "local_pct_clean" -> loc.local_pct_clean
          [] f = "mean_emissions_per_plant" -> loc.mean_emissions_per_plant
          [] f = "abs_lat" -> Abs(pos)
          [] f = "idw_weighted_ci" -> loc.idw_weighted_ci
          [] f = "emaps_zone_ci" -> zone_ci
          [] f = "state_ci" -> state_ci
          [] f = "is_gcp" -> 0
          [] f = "country_trend_pct" -> CountryPct(trends, iso)
          [] OTHER -> TrendTimesCi(trend_b, base_ci)]

NoLocal ==
    [plants_in_radius |-> 0, emissions_per_capacity |-> 0, local_pct_coal |-> 0,
     local_pct_clean |-> 0, mean_emissions_per_plant |-> 0, idw_weighted_ci |-> 0,
     local_trend_b |-> 0]

----------------------------------------------------------------------------
(* compute_green_score (lines 754-1142) *)

\* reverse_geocoder.search on the meridian: the country code of a latitude
GeocodeCc(pos) ==
    IF pos < 0 THEN "IE"
    ELSE IF pos <= 42 THEN "FR" ELSE IF pos <= 110 THEN "DE" ELSE "GB"

\* iso_map (line 790)
IsoMap == [cc \in {"US", "CA", "GB", "IE", "FR", "DE"} |->
              CASE cc = "US" -> "USA" [] cc = "CA" -> "CAN" [] cc = "GB" -> "GBR"
                [] cc = "IE" -> "IRL" [] cc = "FR" -> "FRA" [] OTHER -> "DEU"]

\* country_iso3 after lines 774-795
ScalarCountry(pos, disable_reverse_geocoder) ==
    LET c == NearestCountry(pos)
    IN IF ~disable_reverse_geocoder /\ c = "Unknown" /\ GeocodeCc(pos) \in DOMAIN IsoMap
       THEN IsoMap[GeocodeCc(pos)] ELSE c

\* lines 903-956 and 1017-1024: the plants within the radius
ScalarLocal(pos, radius_km) ==
    IF ~IsSome(POWER_PLANTS_DF) THEN NoLocal
    ELSE LET rows == Get(POWER_PLANTS_DF)
             idx  == InRadius(PlantLat(rows), pos, radius_km)
             n    == Len(idx)
             lp   == [k \in 1..n |-> rows[idx[k]]]
             cats == [k \in 1..n |-> classify_fuel(lp[k].source_type)]
             t_cap == SumSeq([k \in 1..n |-> Fill(lp[k].capacity, 0)])
             t_emi == SumSeq([k \in 1..n |-> lp[k].emissions_quantity])
             pct_fossil == Quot(Len(SelectSeq(cats, LAMBDA c : c \in FossilCats)) * FracUnit, n)
             caps_t == [k \in 1..n |-> Fill(lp[k].capacity, 1)]
         IN IF n = 0 THEN NoLocal
            ELSE [plants_in_radius |-> n,
                  emissions_per_capacity |->
                      IF t_cap > 0 THEN Quot(t_emi * FracUnit, t_cap) ELSE 0,
                  local_pct_coal |->
                      Quot(Len(SelectSeq(cats, LAMBDA c : c = "coal")) * FracUnit, n),
                  local_pct_clean |-> Max2(0, FracUnit - pct_fossil),
                  mean_emissions_per_plant |-> Quot(t_emi * FracUnit, n),
                  idw_weighted_ci |->
                      WeightedCi([k \in 1..n |-> IdwWeight(lp[k].lat, pos)],
                                 [k \in 1..n |-> FuelCi(cats[k], WorldAvg)]),
                  local_trend_b |->
                      Quot(SumSeq([k \in 1..n |-> lp[k].trend_b * caps_t[k]]),
                           Max2(SumSeq(caps_t), 1))]

\* a grading whose "A" starts at green_score 90
GradeStrict(final_ci) ==
    LET over(g) == final_ci <= g * 9 * CiUnit
    IN IF over(10) THEN "A" ELSE IF over(30) THEN "B" ELSE IF over(45) THEN "C"
       ELSE IF over(60) THEN "D" ELSE IF over(75) THEN "E" ELSE "F"

\* the grade of a final intensity: green_score = 100 - final_ci / 9, clamped
GradeOf(final_ci) ==
    LET over(g) == final_ci <= g * 9 * CiUnit      \* green_score >= 100 - g
    IN IF over(15) THEN "A" ELSE IF over(30) THEN "B" ELSE IF over(45) THEN "C"
       ELSE IF over(60) THEN "D" ELSE IF over(75) THEN "E" ELSE "F"

\* an override chain without the clean-grid rule
NeverBypass(base_ci) == FALSE

\* line 1076: the clean-grid bypass replaces the model's prediction
ScalarBypass(base_ci) == base_ci < 100 * CiUnit /\ IsSome(ZONE_POLYGONS)

\* the prediction passed on as it is
Unclamped(predicted_ci) == predicted_ci

\* line 1079
ScalarClamp(predicted_ci) == PyMax0(predicted_ci)

\* an override chain without the live rule
NeverLive(iso, disable_live_api, feed) == FALSE

\* a live override that tests the forecast for truth instead of for None
LiveOnTruthy(iso, disable_live_api, feed) ==
    iso = "GBR" /\ ~disable_live_api /\ feed.status = "value" /\ feed.forecast # 0

\* lines 1081-1088: the live override; feed is what query_uk_carbon_intensity
\* returned: status "error" (None), "null" (no forecast) or "value"
LiveApplies(iso, disable_live_api, feed) ==
    iso = "GBR" /\ ~disable_live_api /\ feed.status = "value"

\* a projection that keeps what the country's record already holds
ProjectionKeepsRecord(trends, iso, b) ==
    LET old == IF iso \in DOMAIN trends THEN trends[iso] ELSE <<>>
        add == {"emission_pct_change_per_year", "local_trend_b", "trend_type"}
    IN [k \in DOMAIN old \cup add |->
          IF k \in DOMAIN old THEN old[k]
          ELSE IF k = "trend_type" THEN "linear" ELSE b]

\* lines 1106-1112: the projection handed back; it is the COUNTRY_TRENDS
\* record itself when the country has one
ScalarProjection(trends, iso, b) ==
    LET old == IF iso \in DOMAIN trends THEN trends[iso] ELSE <<>>
        add == {"emission_pct_change_per_year", "local_trend_b", "trend_type"}
    IN [k \in DOMAIN old \cup add |->
          CASE k = "emission_pct_change_per_year" -> b
            [] k = "local_trend_b" -> b
            [] k = "trend_type" -> "linear"
            [] OTHER -> old[k]]

\* COUNTRY_TRENDS after the call
ScalarTrendsAfter(trends, iso, proj) ==
    IF iso \in DOMAIN trends THEN [trends EXCEPT ![iso] = proj] ELSE trends

\* lines 839-864: base_ci of compute_green_score from the polygon lookup
\* (NaN when it resolved nothing) and the country
ScalarBaseCi(zone, iso) ==
    LET base0 == IF IsNaN(zone) THEN CountryCi(iso) ELSE zone
    IN IF IsNaN(base0) THEN WorldAvg * CiUnit ELSE base0

\* lines 1033-1070: feats_dict of compute_green_score
ScalarFeats(trends, pos, iso, zone, loc) ==
    FeatsDict(trends, ScalarBaseCi(zone, iso),
              IF IsNaN(zone) THEN CountryCi(iso) ELSE zone,
              loc, pos, EmapsZoneCi(pos, zone), iso,
              TrendFallback(trends, loc.local_trend_b, iso))

\* lines 839-1142 given the country (country_iso3), the polygon lookup
\* (zone) and the local plant features (loc) of lines 770-823 and 892-1024
ScalarResponse(trends, pos, radius_km, disable_live_api, feed, iso, zone, loc) ==
    LET base_ci  == ScalarBaseCi(zone, iso)
        trend_b  == TrendFallback(trends, loc.local_trend_b, iso)
        feats    == ScalarFeats(trends, pos, iso, zone, loc)
        model_ci == IF IsSome(REGRESSION_MODEL)
                    THEN ModelScore(Get(REGRESSION_MODEL),
                                    FeatureVector(Get(REGRESSION_MODEL), feats))
                    ELSE base_ci
        predicted_ci == IF ScalarBypass(base_ci) THEN base_ci ELSE model_ci
        live     == LiveApplies(iso, disable_live_api, feed)
        final_ci == IF live THEN feed.forecast * CiUnit ELSE ScalarClamp(predicted_ci)
        proj     == ScalarProjection(trends, iso, trend_b)
    IN [out |->
          [grade |-> GradeOf(final_ci),
           country_iso3 |-> iso,
           ml_predicted_ci |-> Round2(predicted_ci),
           base_location_ci |-> Round2(base_ci),
           intensity |-> Round3(final_ci),
           live_override |-> live,
           projection |-> proj,
           power_plants_in_radius |-> loc.plants_in_radius,
           fossil_operations_in_radius |->
               IF IsSome(FOSSIL_OPS_DF)
               THEN Len(InRadius(PlantLat(Get(FOSSIL_OPS_DF)), pos, radius_km)) ELSE 0],
        trends |-> ScalarTrendsAfter(trends, iso, proj)]

compute_green_score(trends, pos, radius_km, disable_live_api, disable_reverse_geocoder, feed) ==
    ScalarResponse(trends, pos, radius_km, disable_live_api, feed,
                   ScalarCountry(pos, disable_reverse_geocoder),
                   ScalarZoneCi(pos),
                   ScalarLocal(pos, radius_km))

----------------------------------------------------------------------------
(* predict_grid_batch (lines 1291-1694) *)

\* proj_scale = max(0, 1 + trend_b * (target_year - 2024)), 1.0 without a
\* target year; in units of 1/10000
ProjScale(trend_b, target_year) ==
    IF target_year = Nil THEN FracUnit
    ELSE Max2(0, FracUnit + trend_b * (Get(target_year) - 2024))

\* the renewable plants within the radius (lines 1349-1356, 1487-1489)
RenewNear(pos, radius_km) ==
    IF ~IsSome(RENEW_PLANTS_DF) THEN <<>>
    ELSE LET rows == Get(RENEW_PLANTS_DF)
             idx  == InRadius(RenewLat(rows), pos, radius_km)
         IN [k \in 1..Len(idx) |-> rows[idx[k]]]

\* lines 1514-1550: the plants' weights in the IDW intensity (w_fossil with a
\* target year, w_fossil_cap without): distance weight times capacity, times
\* the projected scale when a target year is given
BatchFossilWeights(lp, pos, target_year) ==
    [k \in 1..Len(lp) |->
        Quot(IdwWeight(lp[k].lat, pos) * Fill(lp[k].capacity, 0)
                * ProjScale(lp[k].trend_b, target_year), FracUnit)]

\* lines 1474-1569: at least one power plant within the radius
BatchLocalPlants(lp, rn, pos, target_year, cache) ==
    LET n     == Len(lp)
        cats  == [k \in 1..n |-> ClassifyCached(cache, lp[k].source_type)]
        caps  == [k \in 1..n |-> Fill(lp[k].capacity, 0)]
        scale == [k \in 1..n |-> ProjScale(lp[k].trend_b, target_year)]
        \* emissions projected to the target year, times FracUnit
        emi   == SumSeq([k \in 1..n |-> lp[k].emissions_quantity * scale[k]])
        cap_sum == SumSeq(caps)
        n_renew == Len(rn)
        renew_cap == SumSeq([k \in 1..n_renew |-> rn[k].capacity_mw])
        active == [k \in 1..n |-> target_year = Nil \/ scale[k] > 0]
        n_total == Len(SelectSeq([k \in 1..n |-> active[k]], LAMBDA a : a)) + n_renew
        coal   == Cardinality({k \in 1..n : active[k] /\ cats[k] = "coal"})
        fossil == Cardinality({k \in 1..n : active[k] /\ cats[k] \in FossilCats})
        pct_fossil == IF n_total > 0 THEN Quot(fossil * FracUnit, n_total) ELSE 0
        total_cap == cap_sum + renew_cap
        w_fossil == BatchFossilWeights(lp, pos, target_year)
        w_rn  == [k \in 1..n_renew |-> IdwWeight(rn[k].latitude, pos) * rn[k].capacity_mw]
        caps_t == [k \in 1..n |-> IF caps[k] > 0 THEN caps[k] ELSE 1]
    IN [plants_in_radius |-> n,
        emissions_per_capacity |-> IF total_cap > 0 THEN Quot(emi, total_cap) ELSE 0,
        local_pct_coal |-> IF n_total > 0 THEN Quot(coal * FracUnit, n_total) ELSE 0,
        local_pct_clean |-> Max2(0, FracUnit - pct_fossil),
        mean_emissions_per_plant |-> Quot(emi, n),
        idw_weighted_ci |->
            WeightedCi(w_fossil \o w_rn,
                       [k \in 1..n |-> FuelCi(cats[k], WorldAvg)]
                       \o [k \in 1..n_renew |-> FuelCi(rn[k].fuel_cat, 0)]),
        local_trend_b |->
            Quot(SumSeq([k \in 1..n |-> lp[k].trend_b * caps_t[k]]),
                 Max2(SumSeq(caps_t), 1))]

\* lines 1571-1584: no power plant within the radius, renewables only
BatchLocalRenew(rn, pos) ==
    IF Len(rn) = 0 THEN NoLocal
    ELSE [NoLocal EXCEPT
            !.local_pct_clean = FracUnit,
            !.idw_weighted_ci =
                WeightedCi([k \in 1..Len(rn) |->
                               IdwWeight(rn[k].latitude, pos) * rn[k].capacity_mw],
                           [k \in 1..Len(rn) |-> FuelCi(rn[k].fuel_cat, 0)])]

BatchLocal(pos, radius_km, target_year, cache) ==
    LET rows == IF IsSome(POWER_PLANTS_DF) THEN Get(POWER_PLANTS_DF) ELSE <<>>
        idx  == InRadius(PlantLat(rows), pos, radius_km)
        lp   == [k \in 1..Len(idx) |-> rows[idx[k]]]
        rn   == RenewNear(pos, radius_km)
    IN IF Len(lp) > 0 THEN BatchLocalPlants(lp, rn, pos, target_year, cache)
       ELSE BatchLocalRenew(rn, pos)

\* lines 1670-1672: the model's prediction clamped at 0, or the world
\* average for every point when no model is loaded
BatchModelCi(x) ==
    IF IsSome(REGRESSION_MODEL) /\ Len(Get(REGRESSION_MODEL).features) > 0
    THEN NpMax0(ModelScore(Get(REGRESSION_MODEL), x))
    ELSE WorldAvg * CiUnit

\* lines 1680-1681: clean_zone_mask
BatchBypass(zone) == ~IsNaN(zone) /\ zone < 100 * CiUnit

\* lines 1434-1440: base_ci of predict_grid_batch
BatchBaseCi(zone, iso) ==
    IF ~IsNaN(zone) THEN zone
    ELSE IF ~IsNaN(CountryCi(iso)) THEN CountryCi(iso)
    ELSE WorldAvg * CiUnit

\* lines 1628-1661: feats_dict of predict_grid_batch, with state_ci_val =
\* base_ci (line 1443)
BatchFeats(trends, pos, iso, zone, loc) ==
    FeatsDict(trends, BatchBaseCi(zone, iso), BatchBaseCi(zone, iso), loc, pos,
              EmapsZoneCi(pos, zone), iso,
              TrendFallback(trends, loc.local_trend_b, iso))

\* lines 1434-1681 for one point, given its country (lines 1423-1428), its
\* zone_ci_arr entry (line 1366) and its local features (lines 1462-1584)
BatchPointFrom(trends, pos, iso, zone, loc) ==
    LET base_ci == BatchBaseCi(zone, iso)
        trend_b == TrendFallback(trends, loc.local_trend_b, iso)
        feats   == BatchFeats(trends, pos, iso, zone, loc)
        x       == IF IsSome(REGRESSION_MODEL)
                   THEN FeatureVector(Get(REGRESSION_MODEL), feats) ELSE <<>>
    IN [ci |-> IF BatchBypass(zone) THEN zone ELSE BatchModelCi(x),
        tb |-> trend_b]

\* one iteration of the main loop and that point's share of the final steps
BatchPoint(trends, pos, radius_km, target_year, cache) ==
    BatchPointFrom(trends, pos, NearestCountry(pos), BatchZoneCi(pos),
                   BatchLocal(pos, radius_km, target_year, cache))

\* a query of a spatial index on n points, and the feature computation of
\* the at-th point
IndexQuery(index, n) == [kind |-> "query", index |-> index, n |-> n, at |-> 0]
PointStep(at) == [kind |-> "point", index |-> "none", n |-> 1, at |-> at]

\* batch_zone_ci lines 677-687: whether the vectorised polygon query left
\* the point without an intensity
ZoneUnmatched(pos) ==
    \A i \in DOMAIN Get(ZONE_POLYGONS) :
        ~PolyIntersects(Get(ZONE_POLYGONS)[i], pos)
           \/ IsNaN(PolyCiGet(Get(ZONE_POLYGONS)[i].zoneName))

\* the index queries of batch_zone_ci (lines 669-693), in order: one
\* vectorised query, and one nearest query on the unmatched points if any
ZoneQueries(lats) ==
    IF ~IsSome(ZONE_POLYGONS) \/ DOMAIN ZONE_POLY_CI = {} THEN <<>>
    ELSE LET un == {i \in DOMAIN lats : ZoneUnmatched(lats[i])}
         IN <<IndexQuery("ZONE_POLY_TREE.query", Len(lats))>>
            \o (IF un # {} THEN <<IndexQuery("ZONE_POLY_TREE.nearest", Cardinality(un))>>
                ELSE <<>>)

\* a trace that queries the plant index inside the loop, once per point
LoopTrace(lats) ==
    ZoneQueries(lats)
    \o [k \in 1..(2 * Len(lats)) |->
          IF k % 2 = 1 THEN IndexQuery("POWER_TREE.query_radius", 1)
          ELSE PointStep(k \div 2)]

\* the index queries and per-point steps of one predict_grid_batch call, in
\* program order (lines 1318-1366, then the loop of lines 1417-1662); the
\* data-centre index is built at startup from the bundled list
BatchTrace(lats) ==
    (IF IsSome(POWER_PLANTS_DF)
     THEN <<IndexQuery("POWER_TREE.query_radius", Len(lats)),
            IndexQuery("POWER_TREE.query", Len(lats))>> ELSE <<>>)
    \o (IF IsSome(EMAPS_ZONES)
        THEN <<IndexQuery("EMAPS_ZONE_TREE.query", Len(lats)),
               IndexQuery("EMAPS_ZONE_TREE.query_k", Len(lats))>> ELSE <<>>)
    \o (IF IsSome(FOSSIL_OPS_DF)
        THEN <<IndexQuery("FOSSIL_TREE.query_radius", Len(lats))>> ELSE <<>>)
    \o (IF IsSome(RENEW_PLANTS_DF)
        THEN <<IndexQuery("RENEW_TREE.query_radius", Len(lats))>> ELSE <<>>)
    \o <<IndexQuery("DC_TREE.query", Len(lats))>>
    \o ZoneQueries(lats)
    \o [i \in DOMAIN lats |-> PointStep(i)]

\* fuel_cache is _FUEL_CACHE when the call runs
predict_grid_batch(trends, fuel_cache, lats, radius_km, target_year) ==
    LET cache == IF IsSome(POWER_PLANTS_DF)
                 THEN FuelCacheAfter(fuel_cache, Get(POWER_PLANTS_DF)) ELSE fuel_cache
        pts   == [i \in DOMAIN lats |->
                    BatchPoint(trends, lats[i], radius_km, target_year, cache)]
    IN [out |-> [ci |-> [i \in DOMAIN lats |-> pts[i].ci],
                 tb |-> [i \in DOMAIN lats |-> pts[i].tb]],
        cache |-> cache]

\* predict_footprint (lines 1183-1272): the site analysis and the intensity
\* it reports.  The PUE, the annual tonnes, the equivalences, the footprint
\* grade and the projected tonnes are arithmetic on these in local
\* variables, and are left out.
FootprintResponse(r) ==
    [out |-> [carbon_intensity_gCO2_kWh |-> r.out.intensity,
              country_iso3 |-> r.out.country_iso3,
              site_analysis |-> r.out],
     trends |-> r.trends]

predict_footprint(trends, pos, radius_km, disable_live_api, disable_reverse_geocoder, feed) ==
    FootprintResponse(compute_green_score(trends, pos, radius_km, disable_live_api,
                                          disable_reverse_geocoder, feed))

----------------------------------------------------------------------------
(* The loaders (lines 108-657) and the files they read *)

\* an empty dict
EmptyDict == [k \in {} |-> 0]

\* a source file: the version of its content and its modification time
File(ver, mtime) == [ver |-> ver, mtime |-> mtime]

\* a source file that does not exist: _source_mtime (lines 137-141) catches
\* the error of os.path.getmtime and returns 0.0
Missing == File(0, 0)

\* the cached layers and their cache artifacts in .cache/
Layers == {"power", "fossil", "renew", "zones"}

\* an artifact that pickle.load cannot read
Unreadable == [readable |-> FALSE]

\* the files on disk change at most MaxClock - 1 times
MaxClock == 3

\* _source_mtime (lines 137-141) of the layer's sources
PowerMtime(d) == d.power.mtime
FossilMtimes(d) == <<d.coal.mtime, d.refining.mtime, d.oilgas.mtime>>
RenewMtime(d) == d.wri.mtime
ZonesDirMtime(d) == d.zones.mtime

\* the key a loader compares with the artifact's
SourceKey(d, layer) ==
    CASE layer = "power" -> PowerMtime(d)
      [] layer = "fossil" -> FossilMtimes(d)
      [] layer = "renew" -> RenewMtime(d)
      [] OTHER -> ZonesDirMtime(d)

\* a check that accepts any readable artifact, whatever its key
CacheExists(d, layer) ==
    /\ IsSome(d.cache[layer])
    /\ Get(d.cache[layer]).readable

\* lines 152-156, 321-325, 389-393, 470-474: the artifact exists, unpickles,
\* and its key equals the sources' current one
CacheHit(d, layer) ==
    /\ IsSome(d.cache[layer])
    /\ Get(d.cache[layer]).readable
    /\ Get(d.cache[layer]).key = SourceKey(d, layer)

\* the artifact a cold load writes (lines 297-304, 363-366, 427-430, 596-608)
Artifact(d, layer, data) == Some([readable |-> TRUE, key |-> SourceKey(d, layer), data |-> data])

\* COUNTRY_TRENDS after the cold path: computed records are stored into the
\* existing dict (line 208), which is never cleared
TrendsAfterCold(trends, raw) ==
    LET new == BuildCountryTrends(raw)
    IN [c \in DOMAIN trends \cup DOMAIN new |->
          IF c \in DOMAIN new THEN new[c] ELSE trends[c]]

\* one pass of the loop over the fossil files (lines 341-359): the error of
\* reading a file that does not exist is caught and the file is skipped
FossilFrame(file, f, label) ==
    IF f = Missing THEN <<>> ELSE BuildFossilFile(FossilData(file, f.ver), label)

\* pd.concat over the three fossil files (lines 338-359)
BuildFossilTable(d) ==
    FossilFrame("coal", d.coal, "coal-mining")
    \o FossilFrame("refining", d.refining, "oil-refining")
    \o FossilFrame("oilgas", d.oilgas, "oil-gas-production")

\* dfs is empty (line 361): no fossil file could be read
NoFossilFrames(d) == d.coal = Missing /\ d.refining = Missing /\ d.oilgas = Missing

\* ZONE_POLY_CI as load_zone_polygons builds it (lines 651-654)
BuildPolyCi(zones) ==
    IF IsSome(zones)
    THEN [zk \in {Get(zones)[i].key : i \in DOMAIN Get(zones)} |->
            Get(zones)[CHOOSE i \in DOMAIN Get(zones) : Get(zones)[i].key = zk].ci]
    ELSE EmptyDict

\* the loaders in startup order (lines 1727-1733); load_data_centers fills
\* tables no modelled feature reads
StartupOrder ==
    <<"codecarbon", "power", "fossil", "renew", "zones", "polygons">>

\* whether a loader has installed its layer
HasRun(l) ==
    CASE l = "codecarbon" -> DOMAIN CODECARBON_MIX # {}
      [] l = "power" -> IsSome(POWER_PLANTS_DF)
      [] l = "fossil" -> IsSome(FOSSIL_OPS_DF)
      [] l = "renew" -> IsSome(RENEW_PLANTS_DF)
      [] l = "zones" -> IsSome(EMAPS_ZONES)
      [] OTHER -> IsSome(ZONE_POLYGONS)

\* a loader can run once its predecessor in the startup sequence has run
\* (or has returned leaving its layer absent), and after startup any loader
\* may be called again; an error a loader raises ends the process
CanRun(l) ==
    LET k == CHOOSE i \in DOMAIN StartupOrder : StartupOrder[i] = l
    IN /\ loads.how # "fatal"
       /\ IF k = 1 THEN TRUE
          ELSE HasRun(StartupOrder[k - 1]) \/ loads = [op |-> StartupOrder[k - 1], how |-> "absent"]

\* loads: the loader called last and the path it took
Took(l, how) == [op |-> l, how |-> how]

NoQuery == [op |-> "none"]

\* no second process
NoRace == [file |-> <<>>, proc |-> <<>>]

\* the module globals as the import leaves them before the startup calls
\* (lines 48-88), the sources on disk and an empty cache directory
Init ==
    /\ CODECARBON_MIX = EmptyDict
    /\ FUEL_WEIGHTS = EmptyDict
    /\ REGRESSION_MODEL = Nil
    /\ POWER_PLANTS_DF = Nil
    /\ COUNTRY_TRENDS = EmptyDict
    /\ FOSSIL_OPS_DF = Nil
    /\ RENEW_PLANTS_DF = Nil
    /\ EMAPS_ZONES = Nil
    /\ ZONE_POLYGONS = Nil
    /\ ZONE_POLY_CI = EmptyDict
    /\ FUEL_CACHE = EmptyDict
    /\ \E m \in {1}, g \in BOOLEAN :
          disk = [clock |-> 1,
                  power |-> File(1, 1), coal |-> File(1, 1), refining |-> File(1, 1),
                  oilgas |-> File(1, 1), wri |-> File(1, 1), zones |-> File(1, 1),
                  model |-> m, subnational |-> TRUE, geojson |-> g,
                  cache |-> [l \in Layers |-> Nil]]
    /\ loads = Took("none", "none")
    /\ lastCall = NoQuery
    /\ lastOut = NoQuery
    /\ race = NoRace

Globals ==
    <<CODECARBON_MIX, FUEL_WEIGHTS, REGRESSION_MODEL, POWER_PLANTS_DF, COUNTRY_TRENDS,
      FOSSIL_OPS_DF, RENEW_PLANTS_DF, EMAPS_ZONES, ZONE_POLYGONS, ZONE_POLY_CI>>

\* load_codecarbon (lines 108-125): the US-state file, the Canadian-province
\* file and the model are opened in this order inside one try; the first
\* that cannot be read ends the block and leaves REGRESSION_MODEL as it was
load_codecarbon ==
    /\ CanRun("codecarbon")
    /\ CODECARBON_MIX' = MixData
    /\ FUEL_WEIGHTS' = FuelData
    /\ REGRESSION_MODEL' = IF disk.subnational /\ disk.model # 0
                           THEN Some(ModelData(disk.model))
                           ELSE REGRESSION_MODEL
    /\ loads' = Took("codecarbon", "cold")
    /\ UNCHANGED <<POWER_PLANTS_DF, COUNTRY_TRENDS, FOSSIL_OPS_DF, RENEW_PLANTS_DF,
                   EMAPS_ZONES, ZONE_POLYGONS, ZONE_POLY_CI, FUEL_CACHE, disk,
                   lastCall, lastOut, race>>

\* load_power_plants (lines 144-307)
load_power_plants ==
    /\ CanRun("power")
    /\ LET hit == CacheHit(disk, "power")
           raw == PowerData(disk.power.ver)
           df  == BuildPlantTable(raw)
           tr  == TrendsAfterCold(COUNTRY_TRENDS, raw)
       IN IF hit
          THEN /\ POWER_PLANTS_DF' = Some(Get(disk.cache.power).data.df)
               /\ COUNTRY_TRENDS' = Get(disk.cache.power).data.trends
               /\ disk' = disk
               /\ loads' = Took("power", "cache")
          ELSE IF disk.power = Missing
          THEN \* pd.read_csv (line 167) raises
               /\ UNCHANGED <<POWER_PLANTS_DF, COUNTRY_TRENDS, disk>>
               /\ loads' = Took("power", "fatal")
          ELSE /\ POWER_PLANTS_DF' = Some(df)
               /\ COUNTRY_TRENDS' = tr
               /\ disk' = [disk EXCEPT !.cache.power =
                              Artifact(disk, "power", [df |-> df, trends |-> tr])]
               /\ loads' = Took("power", "cold")
    /\ UNCHANGED <<CODECARBON_MIX, FUEL_WEIGHTS, REGRESSION_MODEL, FOSSIL_OPS_DF,
                   RENEW_PLANTS_DF, EMAPS_ZONES, ZONE_POLYGONS, ZONE_POLY_CI,
                   FUEL_CACHE, lastCall, lastOut, race>>

\* load_fossil_ops (lines 313-370)
load_fossil_ops ==
    /\ CanRun("fossil")
    /\ LET hit == CacheHit(disk, "fossil")
           df  == BuildFossilTable(disk)
       IN IF hit
          THEN /\ FOSSIL_OPS_DF' = Some(Get(disk.cache.fossil).data)
               /\ disk' = disk
               /\ loads' = Took("fossil", "cache")
          ELSE IF NoFossilFrames(disk)
          THEN \* lines 369-370: a warning is printed
               /\ UNCHANGED <<FOSSIL_OPS_DF, disk>>
               /\ loads' = Took("fossil", "absent")
          ELSE /\ FOSSIL_OPS_DF' = Some(df)
               /\ disk' = [disk EXCEPT !.cache.fossil = Artifact(disk, "fossil", df)]
               /\ loads' = Took("fossil", "cold")
    /\ UNCHANGED <<CODECARBON_MIX, FUEL_WEIGHTS, REGRESSION_MODEL, POWER_PLANTS_DF,
                   COUNTRY_TRENDS, RENEW_PLANTS_DF, EMAPS_ZONES, ZONE_POLYGONS,
                   ZONE_POLY_CI, FUEL_CACHE, lastCall, lastOut, race>>

\* load_renewables (lines 376-433)
load_renewables ==
    /\ CanRun("renew")
    /\ LET hit == CacheHit(disk, "renew")
           df  == BuildRenewTable(RenewData(disk.wri.ver))
       IN IF hit
          THEN /\ RENEW_PLANTS_DF' = Some(Get(disk.cache.renew).data)
               /\ disk' = disk
               /\ loads' = Took("renew", "cache")
          ELSE IF disk.wri = Missing
          THEN \* pd.read_csv (line 404) raises
               /\ UNCHANGED <<RENEW_PLANTS_DF, disk>>
               /\ loads' = Took("renew", "fatal")
          ELSE /\ RENEW_PLANTS_DF' = Some(df)
               /\ disk' = [disk EXCEPT !.cache.renew = Artifact(disk, "renew", df)]
               /\ loads' = Took("renew", "cold")
    /\ UNCHANGED <<CODECARBON_MIX, FUEL_WEIGHTS, REGRESSION_MODEL, POWER_PLANTS_DF,
                   COUNTRY_TRENDS, FOSSIL_OPS_DF, EMAPS_ZONES, ZONE_POLYGONS,
                   ZONE_POLY_CI, FUEL_CACHE, lastCall, lastOut, race>>

\* load_emaps_zones (lines 461-610): the artifact is keyed on the mtime of
\* the zones directory
load_emaps_zones ==
    /\ CanRun("zones")
    /\ LET hit == CacheHit(disk, "zones")
           tab == BuildZoneTable(ZoneData(disk.zones.ver))
       IN IF hit
          THEN /\ EMAPS_ZONES' = Some(Get(disk.cache.zones).data)
               /\ disk' = disk
               /\ loads' = Took("zones", "cache")
          ELSE /\ EMAPS_ZONES' = IF tab # <<>> THEN Some(tab) ELSE EMAPS_ZONES
               /\ disk' = [disk EXCEPT !.cache.zones = Artifact(disk, "zones", tab)]
               /\ loads' = Took("zones", "cold")
    /\ UNCHANGED <<CODECARBON_MIX, FUEL_WEIGHTS, REGRESSION_MODEL, POWER_PLANTS_DF,
                   COUNTRY_TRENDS, FOSSIL_OPS_DF, RENEW_PLANTS_DF, ZONE_POLYGONS,
                   ZONE_POLY_CI, FUEL_CACHE, lastCall, lastOut, race>>

\* load_zone_polygons (lines 616-657)
load_zone_polygons ==
    /\ CanRun("polygons")
    /\ IF disk.geojson
       THEN /\ ZONE_POLYGONS' = Some(WorldGeo)
            /\ ZONE_POLY_CI' = BuildPolyCi(EMAPS_ZONES)
            /\ loads' = Took("polygons", "cold")
       ELSE /\ UNCHANGED <<ZONE_POLYGONS, ZONE_POLY_CI>>
            /\ loads' = Took("polygons", "missing")
    /\ UNCHANGED <<CODECARBON_MIX, FUEL_WEIGHTS, REGRESSION_MODEL, POWER_PLANTS_DF,
                   COUNTRY_TRENDS, FOSSIL_OPS_DF, RENEW_PLANTS_DF, EMAPS_ZONES,
                   FUEL_CACHE, disk, lastCall, lastOut, race>>

----------------------------------------------------------------------------
(* The environment: what happens to the files between loads *)

OtherVer(v) == IF v = 1 THEN 2 ELSE 1

DiskOnly == <<Globals, FUEL_CACHE, loads, lastCall, lastOut, race>>

\* a source file is touched: new modification time, same content
TouchSource(f) ==
    /\ disk.clock < MaxClock
    /\ disk' = [disk EXCEPT !.clock = @ + 1, ![f].mtime = disk.clock + 1]
    /\ UNCHANGED DiskOnly

\* a source file is rewritten: new content, new modification time
RewriteSource(f) ==
    /\ disk.clock < MaxClock
    /\ disk' = [disk EXCEPT !.clock = @ + 1,
                            ![f] = File(OtherVer(disk[f].ver), disk.clock + 1)]
    /\ UNCHANGED DiskOnly

\* a zone file is edited in place: the directory's entries, and so the
\* directory's modification time, stay as they are
EditZoneFile ==
    /\ disk.clock < MaxClock
    /\ disk' = [disk EXCEPT !.clock = @ + 1, !.zones.ver = OtherVer(@)]
    /\ UNCHANGED DiskOnly

\* a zone file is replaced by a new file (write and rename): the directory's
\* modification time advances
ReplaceZoneFile ==
    /\ disk.clock < MaxClock
    /\ disk' = [disk EXCEPT !.clock = @ + 1,
                            !.zones = File(OtherVer(disk.zones.ver), disk.clock + 1)]
    /\ UNCHANGED DiskOnly

\* a cache artifact is damaged and no longer unpickles
CorruptCache(layer) ==
    /\ disk.clock < MaxClock
    /\ CacheHit(disk, layer) \/ (IsSome(disk.cache[layer]) /\ Get(disk.cache[layer]).readable)
    /\ disk' = [disk EXCEPT !.clock = @ + 1, !.cache[layer] = Some(Unreadable)]
    /\ UNCHANGED DiskOnly

Next ==
    \/ load_codecarbon
    \/ load_power_plants
    \/ load_fossil_ops
    \/ load_renewables
    \/ load_emaps_zones
    \/ load_zone_polygons
    \/ \E f \in {"power", "refining"} : TouchSource(f)
    \/ \E f \in {"power", "coal", "wri"} : RewriteSource(f)
    \/ EditZoneFile
    \/ ReplaceZoneFile
    \/ \E layer \in Layers : CorruptCache(layer)

\* the engine's lifecycle: startup, reloads and the files changing under it
Spec == Init /\ [][Next]_vars

----------------------------------------------------------------------------
(* Startup with source files missing *)

\* the disk with every source in place and an empty cache directory
FullDisk(g) ==
    [clock |-> 1,
     power |-> File(1, 1), coal |-> File(1, 1), refining |-> File(1, 1),
     oilgas |-> File(1, 1), wri |-> File(1, 1), zones |-> File(1, 1),
     model |-> 1, subnational |-> TRUE, geojson |-> g,
     cache |-> [l \in Layers |-> Nil]]

\* the artifacts an earlier run wrote while every source was in place
EarlierCache(l) ==
    LET d == FullDisk(TRUE)
    IN CASE l = "power" ->
              Artifact(d, l, [df |-> BuildPlantTable(PowerData(1)),
                              trends |-> TrendsAfterCold(EmptyDict, PowerData(1))])
         [] l = "fossil" -> Artifact(d, l, BuildFossilTable(d))
         [] l = "renew" -> Artifact(d, l, BuildRenewTable(RenewData(1)))
         [] OTHER -> Nil

\* the import starts with any of the asset layers' sources deleted since the
\* earlier run, the sub-national files of CodeCarbon readable or not, and the
\* cache directory either empty or as that run left it
InitMissing ==
    /\ CODECARBON_MIX = EmptyDict
    /\ FUEL_WEIGHTS = EmptyDict
    /\ REGRESSION_MODEL = Nil
    /\ POWER_PLANTS_DF = Nil
    /\ COUNTRY_TRENDS = EmptyDict
    /\ FOSSIL_OPS_DF = Nil
    /\ RENEW_PLANTS_DF = Nil
    /\ EMAPS_ZONES = Nil
    /\ ZONE_POLYGONS = Nil
    /\ ZONE_POLY_CI = EmptyDict
    /\ FUEL_CACHE = EmptyDict
    /\ \E gone \in SUBSET {"power", "coal", "refining", "oilgas", "wri", "subnational"},
          kept \in SUBSET {"power", "fossil", "renew"} :
          disk = [f \in DOMAIN FullDisk(TRUE) |->
                    IF f = "subnational" THEN f \notin gone
                    ELSE IF f \in gone THEN Missing
                    ELSE IF f = "cache"
                    THEN [l \in Layers |-> IF l \in kept THEN EarlierCache(l) ELSE Nil]
                    ELSE FullDisk(TRUE)[f]]
    /\ loads = Took("none", "none")
    /\ lastCall = NoQuery
    /\ lastOut = NoQuery
    /\ race = NoRace

NextMissing ==
    \/ load_codecarbon
    \/ load_power_plants
    \/ load_fossil_ops
    \/ load_renewables
    \/ load_emaps_zones
    \/ load_zone_polygons

\* the startup sequence, and reloads after it, on a disk that lacks sources
SpecMissing == InitMissing /\ [][NextMissing]_vars

----------------------------------------------------------------------------
(* Two processes importing the engine at once: load_power_plants against *)
(* the same source and the same cache file power_plants.pkl              *)

RaceProcs == {1, 2}

\* pickle.dump reaches the file in NChunks writes at consecutive offsets
NChunks == 3

\* a stretch of the file nobody has written since the last truncation
Hole == [k |-> 0, key |-> 0, ver |-> 0]

\* the k-th stretch of the pickle of {source_mtime: key, df, trends} built
\* from the source's content ver
Chunk(k, key, ver) == [k |-> k, key |-> key, ver |-> ver]

\* the complete file pickle.dump writes (lines 298-304)
Pickled(key, ver) == [len |-> NChunks, bytes |-> [k \in 1..NChunks |-> Chunk(k, key, ver)]]

\* what the cold path computes from the source (lines 166-290)
SoloLoad(ver) ==
    [df |-> BuildPlantTable(PowerData(ver)),
     trends |-> TrendsAfterCold(EmptyDict, PowerData(ver))]

\* a table unpickled from a file with a hole inside the table's bytes
Damaged == [df |-> <<>>, trends |-> EmptyDict]

\* the file is shorter than a pickle, or has a hole
Partial(f) == f.len < NChunks \/ \E k \in 1..NChunks : f.bytes[k] = Hole

\* a reader that takes a truncated file for a pickle
UnpickledPrefix(f) ==
    IF f.len = 0 THEN {Unreadable}
    ELSE {[readable |-> TRUE, key |-> f.bytes[1].key, data |-> Damaged]}

\* pickle.load (lines 153-154): the outcomes for a file.  A truncated pickle
\* raises; a hole in a full-length file raises when an opcode is read from
\* it and yields a damaged table when it lies inside the table's bytes
Unpickled(f) ==
    IF f.len < NChunks THEN {Unreadable}
    ELSE IF \E k \in 1..NChunks : f.bytes[k] = Hole
    THEN {Unreadable} \cup
         (IF f.bytes[1] # Hole /\ f.bytes[NChunks] # Hole
          THEN {[readable |-> TRUE, key |-> f.bytes[1].key, data |-> Damaged]} ELSE {})
    ELSE {[readable |-> TRUE, key |-> f.bytes[1].key, data |-> SoloLoad(f.bytes[1].ver)]}

\* a process before its call of load_power_plants
Fresh == [pc |-> "start", source_mtime |-> 0, data |-> Nil, path |-> "none",
          saw |-> "none", next |-> 1]

\* both imports start; the source was rewritten at time 2, and the cache
\* directory is empty or holds the artifact of the source as it was before
InitRace ==
    /\ CODECARBON_MIX = MixData
    /\ FUEL_WEIGHTS = FuelData
    /\ REGRESSION_MODEL = Nil
    /\ POWER_PLANTS_DF = Nil
    /\ COUNTRY_TRENDS = EmptyDict
    /\ FOSSIL_OPS_DF = Nil
    /\ RENEW_PLANTS_DF = Nil
    /\ EMAPS_ZONES = Nil
    /\ ZONE_POLYGONS = Nil
    /\ ZONE_POLY_CI = EmptyDict
    /\ FUEL_CACHE = EmptyDict
    /\ disk = [FullDisk(TRUE) EXCEPT !.clock = 2, !.power = File(2, 2)]
    /\ loads = Took("codecarbon", "cold")
    /\ lastCall = NoQuery
    /\ lastOut = NoQuery
    /\ \E f \in {Nil, Some(Pickled(1, 1))} :
          race = [file |-> f, proc |-> [p \in RaceProcs |-> Fresh]]

RaceFrame ==
    <<CODECARBON_MIX, FUEL_WEIGHTS, REGRESSION_MODEL, POWER_PLANTS_DF, COUNTRY_TRENDS,
      FOSSIL_OPS_DF, RENEW_PLANTS_DF, EMAPS_ZONES, ZONE_POLYGONS, ZONE_POLY_CI,
      FUEL_CACHE, disk, loads, lastCall, lastOut>>

\* line 149: source_mtime = _source_mtime(CLIMATE_TRACE_POWER)
RaceStat(p) ==
    /\ race.proc[p].pc = "start"
    /\ race' = [race EXCEPT !.proc[p].pc = "check",
                            !.proc[p].source_mtime = PowerMtime(disk)]
    /\ UNCHANGED RaceFrame

\* lines 152-165: the artifact is installed if it exists, unpickles and has
\* the key; any error of the read is caught and the cold path follows
RaceCheck(p) ==
    /\ race.proc[p].pc = "check"
    /\ IF ~IsSome(race.file)
       THEN race' = [race EXCEPT !.proc[p].pc = "build"]
       ELSE \E a \in Unpickled(Get(race.file)) :
              IF a.readable /\ a.key = race.proc[p].source_mtime
              THEN race' = [race EXCEPT !.proc[p].pc = "done",
                                       !.proc[p].data = Some(a.data),
                                       !.proc[p].path = "cache",
                                       !.proc[p].saw =
                                           IF Partial(Get(race.file)) THEN "partial" ELSE "whole"]
              ELSE race' = [race EXCEPT !.proc[p].pc = "build",
                                       !.proc[p].saw =
                                           IF Partial(Get(race.file)) THEN "partial" ELSE "whole"]
    /\ UNCHANGED RaceFrame

\* lines 166-295: the table and the trends are computed from the source and
\* installed in the process
RaceBuild(p) ==
    /\ race.proc[p].pc = "build"
    /\ race' = [race EXCEPT !.proc[p].pc = "open",
                            !.proc[p].data = Some(SoloLoad(disk.power.ver)),
                            !.proc[p].path = "cold"]
    /\ UNCHANGED RaceFrame

\* line 298: open(cache_file, "wb") truncates the file
RaceOpen(p) ==
    /\ race.proc[p].pc = "open"
    /\ race' = [race EXCEPT !.proc[p].pc = "write", !.proc[p].next = 1,
                            !.file = Some([len |-> 0, bytes |-> [k \in 1..NChunks |-> Hole]])]
    /\ UNCHANGED RaceFrame

\* lines 299-303: one write of pickle.dump at the process's own offset; the
\* file is closed after the last
RaceWrite(p) ==
    /\ race.proc[p].pc = "write"
    /\ LET k == race.proc[p].next
           f == Get(race.file)
       IN race' = [race EXCEPT
                      !.file = Some([len |-> Max2(f.len, k),
                                     bytes |-> [f.bytes EXCEPT ![k] =
                                                  Chunk(k, race.proc[p].source_mtime,
                                                        disk.power.ver)]]),
                      !.proc[p].next = k + 1,
                      !.proc[p].pc = IF k = NChunks THEN "done" ELSE "write"]
    /\ UNCHANGED RaceFrame

NextRace ==
    \E p \in RaceProcs :
        \/ RaceStat(p)
        \/ RaceCheck(p)
        \/ RaceBuild(p)
        \/ RaceOpen(p)
        \/ RaceWrite(p)

\* two uncoordinated loads of the power plants
SpecRace == InitRace /\ [][NextRace]_vars

----------------------------------------------------------------------------
(* The per-plant trend fit of the cold path on its own *)

\* the years of the source: three complete years and the latest one
FitYears == 2022..2025

\* a plant's annual emissions: no row for the year (or a row dropped by the
\* dropna of line 171), or one of three levels
FitLevels == {NaN, 0, 2, 9}

\* the rows of the source after line 172: a plant with a row in every year,
\* which makes every year a column of the pivot, and the plant under study
FitRaw(e) ==
    [i \in 1..4 |-> Row("de_coal", "coal", 2021 + i, "DEU", 78, 5, 500)]
    \o SelectSeq([i \in 1..4 |-> Row("gb_gas", "gas", 2021 + i, "GBR", 140, e[2021 + i], 300)],
                 LAMBDA r : ~IsNaN(r.emissions_quantity))

\* the import has read a source; nothing is fitted yet
InitFit ==
    /\ CODECARBON_MIX = MixData
    /\ FUEL_WEIGHTS = FuelData
    /\ REGRESSION_MODEL = Nil
    /\ POWER_PLANTS_DF = Nil
    /\ COUNTRY_TRENDS = EmptyDict
    /\ FOSSIL_OPS_DF = Nil
    /\ RENEW_PLANTS_DF = Nil
    /\ EMAPS_ZONES = Nil
    /\ ZONE_POLYGONS = Nil
    /\ ZONE_POLY_CI = EmptyDict
    /\ FUEL_CACHE = EmptyDict
    /\ disk = FullDisk(TRUE)
    /\ loads = Took("codecarbon", "cold")
    /\ \E e \in [FitYears -> FitLevels] :
          lastCall = [op |-> "read_power", raw |-> FitRaw(e)]
    /\ lastOut = NoQuery
    /\ race = NoRace

FitFrame ==
    <<CODECARBON_MIX, FUEL_WEIGHTS, REGRESSION_MODEL, POWER_PLANTS_DF, COUNTRY_TRENDS,
      FOSSIL_OPS_DF, RENEW_PLANTS_DF, EMAPS_ZONES, ZONE_POLYGONS, ZONE_POLY_CI,
      FUEL_CACHE, disk, loads, race>>

\* lines 174-266 on the rows read: latest, TREND_YEARS_MAX, b_raw and the
\* plant_trends coefficients
FitPlantTrends ==
    /\ lastCall.op = "read_power"
    /\ lastCall' = [lastCall EXCEPT !.op = "fit_trends"]
    /\ lastOut' = [op |-> "fit_trends",
                   latest |-> LatestYear(lastCall.raw),
                   b_raw |-> PlantBRaws(lastCall.raw, LatestYear(lastCall.raw) - 1),
                   b |-> PlantTrends(lastCall.raw, LatestYear(lastCall.raw) - 1)]
    /\ UNCHANGED FitFrame

NextFit == FitPlantTrends

SpecFit == InitFit /\ [][NextFit]_vars

----------------------------------------------------------------------------
(* The two polygon lookups on their own *)

\* zone boundary files of two features: apart, 0.3 degree apart, sharing a
\* boundary point, and overlapping, in either feature order
ZoneGeos ==
    LET fr == [zoneName |-> "FR", lo |-> 0, hi |-> 40]
    IN UNION {{<<fr, de>>, <<de, fr>>} :
                de \in {[zoneName |-> "DE", lo |-> l, hi |-> 80] : l \in {30, 40, 43, 60}}}

\* the estimates of the zones: each zone with or without one
ZoneEstimates ==
    {[zn \in S |-> IF zn = "FR" THEN 56 * CiUnit ELSE 380 * CiUnit] :
        S \in SUBSET {"FR", "DE"}}

\* the points looked up: inside one polygon, on a boundary, inside an
\* overlap, within and beyond 0.5 degree of the nearest polygon
ZonePoints == {20, 30, 35, 40, 42, 50, 110}

\* the polygons and their estimates as load_zone_polygons leaves them
InitZones ==
    /\ CODECARBON_MIX = MixData
    /\ FUEL_WEIGHTS = FuelData
    /\ REGRESSION_MODEL = Nil
    /\ POWER_PLANTS_DF = Nil
    /\ COUNTRY_TRENDS = EmptyDict
    /\ FOSSIL_OPS_DF = Nil
    /\ RENEW_PLANTS_DF = Nil
    /\ EMAPS_ZONES = Nil
    /\ \E g \in ZoneGeos : ZONE_POLYGONS = Some(g)
    /\ ZONE_POLY_CI \in ZoneEstimates
    /\ FUEL_CACHE = EmptyDict
    /\ disk = FullDisk(TRUE)
    /\ loads = Took("polygons", "cold")
    /\ lastCall = NoQuery
    /\ lastOut = NoQuery
    /\ race = NoRace

ZoneFrame ==
    <<CODECARBON_MIX, FUEL_WEIGHTS, REGRESSION_MODEL, POWER_PLANTS_DF, COUNTRY_TRENDS,
      FOSSIL_OPS_DF, RENEW_PLANTS_DF, EMAPS_ZONES, ZONE_POLYGONS, ZONE_POLY_CI,
      FUEL_CACHE, disk, loads, race>>

\* the polygon lookup of compute_green_score (lines 802-823, 966-985)
ScalarZoneLookup ==
    \E pos \in ZonePoints :
        /\ lastCall' = [op |-> "scalar_zone_ci", pos |-> pos]
        /\ lastOut' = [op |-> "scalar_zone_ci", zone_ci |-> ScalarZoneCi(pos)]
        /\ UNCHANGED ZoneFrame

\* batch_zone_ci on one point (lines 660-703)
BatchZoneLookup ==
    \E pos \in ZonePoints :
        /\ lastCall' = [op |-> "batch_zone_ci", pos |-> pos]
        /\ lastOut' = [op |-> "batch_zone_ci", zone_ci |-> BatchZoneCi(pos)]
        /\ UNCHANGED ZoneFrame

NextZones ==
    \/ ScalarZoneLookup
    \/ BatchZoneLookup

SpecZones == InitZones /\ [][NextZones]_vars

----------------------------------------------------------------------------
(* A started engine serving queries *)

\* the query points (latitudes in tenths of a degree): far south of every
\* asset and zone with the nearest plant in a country without a profile,
\* inside the FR zone, inside the DE zone, inside the GB zone, 0.3 degree
\* north of the GB zone's boundary, north of every zone with only a wind
\* farm in range, and latitude 95.0, which is no latitude (no caller and no
\* function checks the range: lines 754-767, 1291-1315, 1799-1804, 1902-1922)
Points == {0 - 500, 20, 80, 145, 163, 170, 950}

\* the sites predict_footprint is asked about: the query points, and a point
\* 1 degree south of the FR polygon whose nearest plant is in FRA
SitePoints == Points \cup {0 - 10}

\* radius_km: the default of the three entry points
DefaultRadius == 300

\* radius_km of the calls that pass one: the default and half of it
Radii == {150, DefaultRadius}

\* what query_uk_carbon_intensity returns: None on any error or timeout and
\* on empty data ("error"), a record without a forecast ("null"), or a
\* forecast in gCO2/kWh, which may be 0
Feeds ==
    {[status |-> "error", forecast |-> 0], [status |-> "null", forecast |-> 0],
     [status |-> "value", forecast |-> 187], [status |-> "value", forecast |-> 0]}

\* the feed is not consulted
NoFeed == [status |-> "unused", forecast |-> 0]

\* <<disable_live_api, disable_reverse_geocoder>>: the defaults, and both
\* disabled as the grid callers and profile_bottleneck.py pass them
ScalarModes == {<<FALSE, FALSE>>, <<TRUE, TRUE>>}

\* target_year of predict_grid_batch: None, or a year 5 or 11 years after
\* the baseline year 2024
Years == {Nil, Some(2029), Some(2035)}

\* lats of predict_grid_batch: each query point, two points at once, and two
\* points whose radius holds a single coal plant
BatchInputs ==
    {<<p>> : p \in SitePoints} \cup {<<145, 20>>, <<0 - 390>>, <<0 - 310>>, <<100>>}

\* test_lats of profile_bottleneck.py
ProfileInputs == {<<80, 145>>, <<20, 0 - 500, 170>>}

\* the snapshots a startup can leave, <<model, geojson, zones>>: the trained
\* model 1 or 2 or none (0), world.geojson present or not, the zones
\* directory with its YAML files (1) or empty (0)
Snapshots ==
    {<<mv, TRUE, 1>> : mv \in 0..2} \cup {<<0, FALSE, 1>>, <<1, FALSE, 1>>, <<1, TRUE, 0>>}

\* the state a cold startup leaves
InitQuery ==
    \E snap \in Snapshots :
      LET mv  == snap[1]
          geo == snap[2]
          zv  == snap[3]
          d0 == [clock |-> 1,
                 power |-> File(1, 1), coal |-> File(1, 1), refining |-> File(1, 1),
                 oilgas |-> File(1, 1), wri |-> File(1, 1), zones |-> File(zv, 1),
                 model |-> mv, subnational |-> TRUE, geojson |-> geo,
                 cache |-> [l \in Layers |-> Nil]]
          df == BuildPlantTable(PowerData(1))
          tr == TrendsAfterCold(EmptyDict, PowerData(1))
          fo == BuildFossilTable(d0)
          rn == BuildRenewTable(RenewData(1))
          zs == BuildZoneTable(ZoneData(zv))
          ez == IF zs # <<>> THEN Some(zs) ELSE Nil
      IN /\ CODECARBON_MIX = MixData
         /\ FUEL_WEIGHTS = FuelData
         /\ REGRESSION_MODEL = IF mv = 0 THEN Nil ELSE Some(ModelData(mv))
         /\ POWER_PLANTS_DF = Some(df)
         /\ COUNTRY_TRENDS = tr
         /\ FOSSIL_OPS_DF = Some(fo)
         /\ RENEW_PLANTS_DF = Some(rn)
         /\ EMAPS_ZONES = ez
         /\ ZONE_POLYGONS = IF geo THEN Some(WorldGeo) ELSE Nil
         /\ ZONE_POLY_CI = IF geo THEN BuildPolyCi(ez) ELSE EmptyDict
         /\ FUEL_CACHE = EmptyDict
         /\ disk = d0
         /\ loads = Took("polygons", IF geo THEN "cold" ELSE "missing")
         /\ lastCall = NoQuery
         /\ lastOut = NoQuery
         /\ race = NoRace

\* what a query leaves alone
QueryFrame ==
    <<CODECARBON_MIX, FUEL_WEIGHTS, REGRESSION_MODEL, POWER_PLANTS_DF, FOSSIL_OPS_DF,
      RENEW_PLANTS_DF, EMAPS_ZONES, ZONE_POLYGONS, ZONE_POLY_CI, disk, loads, race>>

\* the feeds a scalar call can see: the live feed is queried only for GBR
\* with the live API enabled (line 1083)
FeedsFor(pos, disable_live_api, disable_reverse_geocoder) ==
    IF ScalarCountry(pos, disable_reverse_geocoder) = "GBR" /\ ~disable_live_api
    THEN Feeds ELSE {NoFeed}

\* the arguments of a scalar call as lastCall records them
ScalarCall(op, pos, radius_km, mode, feed) ==
    [op |-> op, pos |-> pos, radius_km |-> radius_km, disable_live_api |-> mode[1],
     disable_reverse_geocoder |-> mode[2], feed |-> feed]

\* a call of compute_green_score
ComputeGreenScore ==
    \E pos \in Points, radius_km \in {DefaultRadius}, mode \in ScalarModes :
      \E feed \in FeedsFor(pos, mode[1], mode[2]) :
        \E r \in {compute_green_score(COUNTRY_TRENDS, pos, radius_km, mode[1], mode[2], feed)} :
           /\ lastCall' = ScalarCall("compute_green_score", pos, radius_km, mode, feed)
           /\ lastOut' = r.out
           /\ COUNTRY_TRENDS' = r.trends
           /\ UNCHANGED <<QueryFrame, FUEL_CACHE>>

\* a call of predict_footprint as profile_bottleneck.py makes it
PredictFootprint ==
    \E pos \in SitePoints, radius_km \in Radii :
      \E r \in {predict_footprint(COUNTRY_TRENDS, pos, radius_km, TRUE, TRUE, NoFeed)} :
         /\ lastCall' = ScalarCall("predict_footprint", pos, radius_km, <<TRUE, TRUE>>, NoFeed)
         /\ lastOut' = r.out
         /\ COUNTRY_TRENDS' = r.trends
         /\ UNCHANGED <<QueryFrame, FUEL_CACHE>>

\* a call of predict_grid_batch
PredictGridBatch ==
    \E lats \in BatchInputs, radius_km \in Radii, target_year \in Years :
      \E r \in {predict_grid_batch(COUNTRY_TRENDS, FUEL_CACHE, lats, radius_km, target_year)} :
         /\ lastCall' = [op |-> "predict_grid_batch", lats |-> lats,
                         radius_km |-> radius_km, target_year |-> target_year]
         /\ lastOut' = r.out
         /\ FUEL_CACHE' = r.cache
         /\ UNCHANGED <<QueryFrame, COUNTRY_TRENDS>>

\* predict_footprint for each point in turn (profile_bottleneck.py lines 18-19, 31)
RECURSIVE RunFootprints(_, _, _)
RunFootprints(trends, lats, outs) ==
    IF lats = <<>> THEN [outs |-> outs, trends |-> trends]
    ELSE \* the call, then the rest of the loop on what the call left behind
         LET Rest(r) == RunFootprints(r.trends, Tail(lats), Append(outs, r.out))
         IN Rest(predict_footprint(trends, Head(lats), 300, TRUE, TRUE, NoFeed))

\* the three passes of the script over test_lats
ProfileCompare(test_lats, serial, result) ==
    LET End(old) == [serial |-> serial.outs, result |-> result.out, old |-> old.outs,
                     trends |-> old.trends, cache |-> result.cache]
    IN End(RunFootprints(serial.trends, test_lats, <<>>))

ProfileBatch(fuel_cache, test_lats, serial) ==
    ProfileCompare(test_lats, serial,
                   predict_grid_batch(serial.trends, fuel_cache, test_lats, 300, Nil))

ProfileRun(trends, fuel_cache, test_lats) ==
    ProfileBatch(fuel_cache, test_lats, RunFootprints(trends, test_lats, <<>>))

\* profile_bottleneck.py (lines 17-35): the serial loop, the batch call, and
\* the serial calls again for the comparison it prints
ProfileBottleneck ==
    \E test_lats \in ProfileInputs :
      \E run \in {ProfileRun(COUNTRY_TRENDS, FUEL_CACHE, test_lats)} :
         /\ lastCall' = [op |-> "profile_bottleneck", test_lats |-> test_lats]
         /\ lastOut' = [serial |-> run.serial, result |-> run.result, old |-> run.old]
         /\ COUNTRY_TRENDS' = run.trends
         /\ FUEL_CACHE' = run.cache
         /\ UNCHANGED QueryFrame

NextQuery ==
    \/ ComputeGreenScore
    \/ PredictFootprint
    \/ PredictGridBatch
    \/ ProfileBottleneck

SpecQuery == InitQuery /\ [][NextQuery]_vars

----------------------------------------------------------------------------
(* The override chain (lines 1075-1088, 1674-1681) *)

\* C1 as stated: whenever the zone baseline resolved for a point is below
\* 100 g, the intensity returned is that baseline exactly, by
\* compute_green_score and by predict_grid_batch alike.
C1_BaselineExact ==
    /\ lastCall.op = "compute_green_score" =>
          LET z == ScalarZoneCi(lastCall.pos)
          IN (~IsNaN(z) /\ z < 100 * CiUnit) => lastOut.intensity = z
    /\ lastCall.op = "predict_grid_batch" =>
          \A i \in DOMAIN lastCall.lats :
              LET z == BatchZoneCi(lastCall.lats[i])
              IN (~IsNaN(z) /\ z < 100 * CiUnit) => lastOut.ci[i] = z

\* C1 amended: with a zone baseline below 100 g, predict_grid_batch returns
\* the baseline exactly; compute_green_score returns the baseline rounded to
\* 3 decimals, or the rounded live forecast when the call is for GBR with the
\* live API enabled and the feed carries a forecast.
C1_BaselineRounded ==
    /\ lastCall.op = "compute_green_score" =>
          LET z    == ScalarZoneCi(lastCall.pos)
              live == /\ lastOut.country_iso3 = "GBR"
                      /\ ~lastCall.disable_live_api
                      /\ lastCall.feed.status = "value"
          IN (~IsNaN(z) /\ z < 100 * CiUnit) =>
                lastOut.intensity = IF live THEN Round3(lastCall.feed.forecast * CiUnit)
                                    ELSE Round3(z)
    /\ lastCall.op = "predict_grid_batch" =>
          \A i \in DOMAIN lastCall.lats :
              LET z == BatchZoneCi(lastCall.lats[i])
              IN (~IsNaN(z) /\ z < 100 * CiUnit) => lastOut.ci[i] = z

\* a scalar call in a clean zone whose baseline has more than 3 decimals
C1_RoundedAway ==
    /\ lastCall.op = "compute_green_score"
    /\ LET z == ScalarZoneCi(lastCall.pos)
       IN /\ ~IsNaN(z) /\ z < 100 * CiUnit
          /\ lastOut.intensity = Round3(z)
          /\ lastOut.intensity # z

\* C2 as stated: the first matching rule decides; once the clean-grid rule
\* has matched, the response carries the zone baseline (in the response's 3
\* decimals) and the live override does not replace it.
C2_FirstMatchWins ==
    lastCall.op = "compute_green_score" =>
        LET z == ScalarZoneCi(lastCall.pos)
        IN (~IsNaN(z) /\ z < 100 * CiUnit) => lastOut.intensity = Round3(z)

\* C2 amended: the rules are applied in order and the last matching rule
\* decides; for GBR with the live API enabled and a forecast in the feed the
\* response carries the forecast and flags the override, clean zone or not,
\* and without those conditions no override is flagged.
C2_LiveRuleLast ==
    lastCall.op = "compute_green_score" =>
        LET live == /\ lastOut.country_iso3 = "GBR"
                    /\ ~lastCall.disable_live_api
                    /\ lastCall.feed.status = "value"
        IN /\ live => /\ lastOut.live_override
                      /\ lastOut.intensity = Round3(lastCall.feed.forecast * CiUnit)
           /\ ~live => ~lastOut.live_override

\* a live forecast returned for a point in a clean zone
C2_LiveOverCleanZone ==
    /\ lastCall.op = "compute_green_score"
    /\ lastOut.live_override
    /\ LET z == ScalarZoneCi(lastCall.pos)
       IN /\ ~IsNaN(z) /\ z < 100 * CiUnit
          /\ lastOut.ml_predicted_ci = Round2(z)
          /\ lastOut.intensity # Round3(z)

\* C3 as stated, on the comparison profile_bottleneck.py prints: for every
\* test point the batch intensity equals the intensity the scalar path
\* returns for the same point (live feed and reverse geocoder disabled),
\* up to the rounding of the scalar response (half a thousandth of a gram).
C3_BatchMatchesScalar ==
    lastCall.op = "profile_bottleneck" =>
        \A i \in DOMAIN lastCall.test_lats :
            Abs(lastOut.old[i].carbon_intensity_gCO2_kWh - lastOut.result.ci[i]) <= 5

\* C4: every intensity compute_green_score or predict_footprint returns and
\* every element of predict_grid_batch's ci is a number >= 0 (NaN, the
\* negative sentinel, included in what is excluded).
C4_NonNegative ==
    /\ lastCall.op = "compute_green_score" => lastOut.intensity >= 0
    /\ lastCall.op = "predict_footprint" => lastOut.carbon_intensity_gCO2_kWh >= 0
    /\ lastCall.op = "predict_grid_batch" =>
          \A i \in DOMAIN lastCall.lats : lastOut.ci[i] >= 0
    /\ lastCall.op = "profile_bottleneck" =>
          \A i \in DOMAIN lastCall.test_lats :
              /\ lastOut.result.ci[i] >= 0
              /\ lastOut.old[i].carbon_intensity_gCO2_kWh >= 0

\* a scalar call whose model prediction was negative and came back as 0
C4_NegativePrediction ==
    /\ lastCall.op = "compute_green_score"
    /\ ~IsNaN(lastOut.ml_predicted_ci)
    /\ lastOut.ml_predicted_ci < 0
    /\ lastOut.intensity = 0

----------------------------------------------------------------------------
(* The layer caches (lines 144-171, 297-307, 317-332, 467-485) *)

\* C5: a call of load_power_plants recomputes from the source if and only if
\* no artifact exists, the artifact cannot be read, or its key differs from
\* the source's current modification time; it then installs the table built
\* from the source and writes an artifact under the current key.  Otherwise
\* it installs the artifact's table and trends and leaves the disk alone.
C5_RecomputeIffMiss ==
    [][load_power_plants =>
          LET a    == disk.cache.power
              miss == IF ~IsSome(a) THEN TRUE
                      ELSE IF ~Get(a).readable THEN TRUE
                      ELSE Get(a).key # disk.power.mtime
          IN /\ (loads'.how = "cold") <=> miss
             /\ miss => /\ POWER_PLANTS_DF' = Some(BuildPlantTable(PowerData(disk.power.ver)))
                        /\ Get(disk'.cache.power).readable
                        /\ Get(disk'.cache.power).key = disk.power.mtime
             /\ ~miss => /\ POWER_PLANTS_DF' = Some(Get(a).data.df)
                         /\ COUNTRY_TRENDS' = Get(a).data.trends
                         /\ disk' = disk]_vars

\* the source was touched, a load rebuilt under the new key, and the load
\* after it took the artifact
C5_ReusedAfterTouch ==
    /\ loads = Took("power", "cache")
    /\ disk.power.mtime > 1
    /\ IsSome(disk.cache.power)
    /\ IF Get(disk.cache.power).readable
       THEN Get(disk.cache.power).key = disk.power.mtime ELSE FALSE

\* C6 as stated: whatever happened to the files, the table a load installs,
\* for each of the four cached layers, is the one the layer's sources yield
\* as they are at the time of the load.
C6_NoStaleInstall ==
    [][/\ load_power_plants =>
             POWER_PLANTS_DF' = Some(BuildPlantTable(PowerData(disk.power.ver)))
       /\ load_fossil_ops => FOSSIL_OPS_DF' = Some(BuildFossilTable(disk))
       /\ load_renewables =>
             RENEW_PLANTS_DF' = Some(BuildRenewTable(RenewData(disk.wri.ver)))
       /\ load_emaps_zones =>
             EMAPS_ZONES' = Some(BuildZoneTable(ZoneData(disk.zones.ver)))]_vars

----------------------------------------------------------------------------
(* Queries against the loaded state (lines 1106-1142, 1279-1288) *)

\* C7 as stated: no query changes the state loaded at startup.
C7_QueriesReadOnly == [][Loaded' = Loaded]_vars

\* C8: whatever queries ran before it, a call of compute_green_score with
\* the live feed disabled, or of predict_grid_batch, returns what the same
\* call returns against the freshly loaded state (the trend records as the
\* loader built them, an empty fuel cache); and the two serial passes of
\* profile_bottleneck.py, with a batch call between them, return the same.
C8_SameCallSameOutput ==
    LET fresh == TrendsAfterCold(EmptyDict, PowerData(disk.power.ver))
    IN /\ (lastCall.op = "compute_green_score" /\ lastCall.disable_live_api) =>
              lastOut = compute_green_score(fresh, lastCall.pos, lastCall.radius_km,
                                            lastCall.disable_live_api,
                                            lastCall.disable_reverse_geocoder,
                                            lastCall.feed).out
       /\ lastCall.op = "predict_grid_batch" =>
              lastOut = predict_grid_batch(fresh, EmptyDict, lastCall.lats,
                                           lastCall.radius_km, lastCall.target_year).out
       /\ lastCall.op = "profile_bottleneck" => lastOut.serial = lastOut.old

\* a scalar call with the live feed disabled, made after earlier queries
\* rewrote its country's trend record with another coefficient's keys and
\* filled the fuel cache
C8_CallAfterOthers ==
    /\ lastCall.op = "compute_green_score"
    /\ lastCall.disable_live_api
    /\ FUEL_CACHE # EmptyDict
    /\ lastOut.country_iso3 = "GBR"
    /\ lastOut.projection.local_trend_b # 1500
    /\ \E c \in DOMAIN COUNTRY_TRENDS \ {"GBR"} :
           "local_trend_b" \in DOMAIN COUNTRY_TRENDS[c]

\* C9 as stated: for a point with no plant, renewable or zone in reach, in
\* no polygon and with no country resolved, the intensity is the world
\* average, from compute_green_score and from predict_grid_batch.
C9_WorldAverageOnGap ==
    LET Gap(pos, radius_km) ==
            /\ NearestCountry(pos) = "Unknown"
            /\ IsNaN(ScalarZoneCi(pos)) /\ IsNaN(BatchZoneCi(pos))
            /\ EmapsZoneCi(pos, NaN) = 0
            /\ InRadius(PlantLat(Get(POWER_PLANTS_DF)), pos, radius_km) = <<>>
            /\ RenewNear(pos, radius_km) = <<>>
    IN /\ (/\ lastCall.op = "compute_green_score"
           /\ lastOut.country_iso3 = "Unknown"
           /\ Gap(lastCall.pos, lastCall.radius_km)) =>
              lastOut.intensity = WorldAvg * CiUnit
       /\ lastCall.op = "predict_grid_batch" =>
              \A i \in DOMAIN lastCall.lats :
                  Gap(lastCall.lats[i], lastCall.radius_km) =>
                      lastOut.ci[i] = WorldAvg * CiUnit

\* C10 as stated: every plant's trend coefficient in the loaded table and
\* every tb predict_grid_batch reports is within MAX_B of 0.
C10_TrendClamped ==
    /\ \A i \in DOMAIN Get(POWER_PLANTS_DF) : Abs(Get(POWER_PLANTS_DF)[i].trend_b) <= MAX_B
    /\ lastCall.op = "predict_grid_batch" =>
          \A i \in DOMAIN lastCall.lats : Abs(lastOut.tb[i]) <= MAX_B

\* C11: compute_green_score returns the feed's forecast with the override
\* flagged exactly when the resolved country is GBR, the live API is not
\* disabled and the feed returned a forecast (0 included); on a feed error,
\* a timeout, empty data, a null forecast, a disabled API or another
\* country the call still answers, with the intensity the same call gives
\* with the live API disabled and with no override flagged.
C11_LiveIffFeed ==
    lastCall.op = "compute_green_score" =>
        LET live  == /\ lastOut.country_iso3 = "GBR"
                     /\ ~lastCall.disable_live_api
                     /\ lastCall.feed.status = "value"
            plain == compute_green_score(COUNTRY_TRENDS, lastCall.pos, lastCall.radius_km,
                                         TRUE, lastCall.disable_reverse_geocoder, NoFeed).out
        IN /\ live <=> (/\ lastOut.live_override
                        /\ lastCall.feed.status = "value"
                        /\ lastOut.intensity = lastCall.feed.forecast * CiUnit)
           /\ ~live => /\ ~lastOut.live_override
                       /\ lastOut.intensity = plain.intensity
                       /\ lastOut.grade = plain.grade

\* the feed failed for a GBR point with the live API enabled, and the call
\* answered with the model's value
C11_FeedFailedOpen ==
    /\ lastCall.op = "compute_green_score"
    /\ lastOut.country_iso3 = "GBR"
    /\ ~lastCall.disable_live_api
    /\ lastCall.feed.status = "error"
    /\ ~lastOut.live_override
    /\ lastOut.intensity > 0

\* C12 as stated: with no trained model loaded, every point's intensity is
\* its resolved baseline (the zone polygon's, else the country's, else the
\* world average), from compute_green_score (live override aside, in the
\* response's 3 decimals) and from predict_grid_batch.
C12_BaselineWithoutModel ==
    LET Base(z, iso) == IF ~IsNaN(z) THEN z
                        ELSE IF ~IsNaN(CountryCi(iso)) THEN CountryCi(iso)
                        ELSE WorldAvg * CiUnit
    IN REGRESSION_MODEL = Nil =>
         /\ (lastCall.op = "compute_green_score" /\ ~lastOut.live_override) =>
                lastOut.intensity = Round3(Base(ScalarZoneCi(lastCall.pos),
                                                lastOut.country_iso3))
         /\ lastCall.op = "predict_grid_batch" =>
                \A i \in DOMAIN lastCall.lats :
                    lastOut.ci[i] = Base(BatchZoneCi(lastCall.lats[i]),
                                         NearestCountry(lastCall.lats[i]))

C14_VectorMatchesDeclared ==
    IsSome(REGRESSION_MODEL) =>
      LET model == Get(REGRESSION_MODEL)
          names == model.features
          Ok(x, feats) ==
              /\ DOMAIN x = 1..Len(names)
              /\ \A k \in 1..Len(names) :
                    x[k] = IF names[k] \in DOMAIN feats THEN feats[names[k]] ELSE 0
          SFeats == ScalarFeats(COUNTRY_TRENDS, lastCall.pos,
                                ScalarCountry(lastCall.pos, lastCall.disable_reverse_geocoder),
                                ScalarZoneCi(lastCall.pos),
                                ScalarLocal(lastCall.pos, lastCall.radius_km))
          BFeats(pos) == BatchFeats(COUNTRY_TRENDS, pos, NearestCountry(pos),
                                    BatchZoneCi(pos),
                                    BatchLocal(pos, lastCall.radius_km,
                                               lastCall.target_year, FUEL_CACHE))
      IN /\ lastCall.op = "compute_green_score" =>
              Ok(FeatureVector(model, SFeats), SFeats)
         /\ lastCall.op = "predict_grid_batch" =>
              \A i \in DOMAIN lastCall.lats :
                  Ok(FeatureVector(model, BFeats(lastCall.lats[i])),
                     BFeats(lastCall.lats[i]))

\* a batch call served by a model that declares a name the path does not
\* compute, next to names it computes with non-zero values
C14_UncomputedNameDeclared ==
    /\ lastCall.op = "predict_grid_batch"
    /\ IsSome(REGRESSION_MODEL)
    /\ \E k \in DOMAIN Get(REGRESSION_MODEL).features :
          Get(REGRESSION_MODEL).features[k] \notin FeatureNames
    /\ LET f == BatchFeats(COUNTRY_TRENDS, lastCall.lats[1], NearestCountry(lastCall.lats[1]),
                           BatchZoneCi(lastCall.lats[1]),
                           BatchLocal(lastCall.lats[1], lastCall.radius_km,
                                      lastCall.target_year, FUEL_CACHE))
           x == FeatureVector(Get(REGRESSION_MODEL), f)
       IN /\ Len(x) = 5 /\ x[5] = 0
          /\ x[1] = f["country_ci"] /\ x[1] > 0
          /\ x[2] = f["local_pct_coal"] /\ x[2] > 0

\* C15 as stated: a query whose latitude is outside [-90, 90] gets no
\* intensity, grade or footprint: the scalar calls return no response
\* carrying them and the batch call no intensity for that point.
C15_OutOfRangeRejected ==
    LET Bad(pos) == pos < 0 - 900 \/ pos > 900
    IN /\ (lastCall.op = "compute_green_score" /\ Bad(lastCall.pos)) =>
            /\ "intensity" \notin DOMAIN lastOut
            /\ "grade" \notin DOMAIN lastOut
       /\ (lastCall.op = "predict_footprint" /\ Bad(lastCall.pos)) =>
            "carbon_intensity_gCO2_kWh" \notin DOMAIN lastOut
       /\ lastCall.op = "predict_grid_batch" =>
            \A i \in DOMAIN lastCall.lats :
                Bad(lastCall.lats[i]) =>
                    ("ci" \notin DOMAIN lastOut \/ IsNaN(lastOut.ci[i]))

\* C16 as stated: whenever compute_green_score answers from the clean-grid
\* bypass (zone polygons loaded, baseline b below 100 g, no live override),
\* the response's intensity is b and its grade is "A".
C16_BypassExactGradeA ==
    (/\ lastCall.op = "compute_green_score"
     /\ IsSome(ZONE_POLYGONS)
     /\ ~lastOut.live_override) =>
        LET b == ScalarBaseCi(ScalarZoneCi(lastCall.pos), lastOut.country_iso3)
        IN b < 100 * CiUnit => (lastOut.intensity = b /\ lastOut.grade = "A")

\* C16 amended: whenever compute_green_score answers from the clean-grid
\* bypass, the response's intensity is b rounded to 3 decimals and its grade
\* is "A".
C16_BypassRoundedGradeA ==
    (/\ lastCall.op = "compute_green_score"
     /\ IsSome(ZONE_POLYGONS)
     /\ ~lastOut.live_override) =>
        LET b == ScalarBaseCi(ScalarZoneCi(lastCall.pos), lastOut.country_iso3)
        IN b < 100 * CiUnit =>
              (lastOut.intensity = RoundDiv(b, 10) * 10 /\ lastOut.grade = "A")

\* a bypassed answer for a zone baseline between 90 and 100 g, graded "A",
\* with a model loaded
C16_BypassNearLimit ==
    /\ lastCall.op = "compute_green_score"
    /\ IsSome(REGRESSION_MODEL)
    /\ ~lastOut.live_override
    /\ ~IsNaN(ScalarZoneCi(lastCall.pos))
    /\ ScalarZoneCi(lastCall.pos) > 90 * CiUnit
    /\ ScalarZoneCi(lastCall.pos) < 100 * CiUnit
    /\ lastOut.intensity = ScalarZoneCi(lastCall.pos)
    /\ lastOut.grade = "A"

\* C17 as stated: in a predict_grid_batch call with a target year 5 years
\* after the baseline (2024), for every point whose radius holds a single
\* plant, a coal plant with trend coefficient -0.10, the plant's term in the
\* IDW-weighted intensity (its weight times its fuel intensity) is strictly
\* smaller than its term in the same call without a target year.
C17_ProjectedTermSmaller ==
    (/\ lastCall.op = "predict_grid_batch"
     /\ lastCall.target_year = Some(2029)) =>
        \A i \in DOMAIN lastCall.lats :
            LET rows == Get(POWER_PLANTS_DF)
                idx  == InRadius(PlantLat(rows), lastCall.lats[i], lastCall.radius_km)
                lp   == [k \in 1..Len(idx) |-> rows[idx[k]]]
                ci   == FuelCi(ClassifyCached(FUEL_CACHE, lp[1].source_type), WorldAvg)
                Term(year) == BatchFossilWeights(lp, lastCall.lats[i], year)[1] * ci
            IN (/\ Len(lp) = 1
                /\ ClassifyCached(FUEL_CACHE, lp[1].source_type) = "coal"
                /\ lp[1].trend_b = 0 - 1000) =>
                   Term(lastCall.target_year) < Term(Nil)

\* the coordinate columns POWER_TREE, FOSSIL_TREE and RENEW_TREE are queried
\* on (lines 1322, 1344, 1350), an absent layer being empty
LayerLats ==
    << PlantLat(Get(POWER_PLANTS_DF)),
       IF IsSome(FOSSIL_OPS_DF) THEN PlantLat(Get(FOSSIL_OPS_DF)) ELSE <<>>,
       IF IsSome(RENEW_PLANTS_DF) THEN RenewLat(Get(RENEW_PLANTS_DF)) ELSE <<>> >>

\* C18: for the point(s) of the last call and any radii r1 <= r2, the assets
\* of every layer considered at r1 are among those considered at r2, and the
\* count of plants and of fossil operations the call reported at its radius
\* is at most the count at any larger radius and at least the count at any
\* smaller one.
C18_RadiusMonotone ==
    lastCall.op \in {"compute_green_score", "predict_footprint", "predict_grid_batch"} =>
        /\ LET pts == IF lastCall.op = "predict_grid_batch"
                       THEN {lastCall.lats[i] : i \in DOMAIN lastCall.lats}
                       ELSE {lastCall.pos}
               At(l, pos, r) == LET idx == InRadius(LayerLats[l], pos, r)
                                IN {idx[k] : k \in DOMAIN idx}
           IN \A pos \in pts : \A r1 \in Radii, r2 \in Radii : \A l \in 1..3 :
                 r1 <= r2 => At(l, pos, r1) \subseteq At(l, pos, r2)
        /\ lastCall.op # "predict_grid_batch" =>
              LET rep == IF lastCall.op = "predict_footprint"
                         THEN lastOut.site_analysis ELSE lastOut
                  Plants(r) == Len(InRadius(LayerLats[1], lastCall.pos, r))
                  Ops(r)    == Len(InRadius(LayerLats[2], lastCall.pos, r))
              IN \A r \in Radii :
                    /\ lastCall.radius_km <= r =>
                          /\ rep.power_plants_in_radius <= Plants(r)
                          /\ rep.fossil_operations_in_radius <= Ops(r)
                    /\ r <= lastCall.radius_km =>
                          /\ Plants(r) <= rep.power_plants_in_radius
                          /\ Ops(r) <= rep.fossil_operations_in_radius

\* C18 witness: a call at the smaller radius reported one plant where the
\* larger radius holds two
C18_LargerRadiusAddsPlant ==
    /\ lastCall.op = "predict_footprint"
    /\ lastCall.radius_km = 150
    /\ lastOut.site_analysis.power_plants_in_radius = 1
    /\ Len(InRadius(LayerLats[1], lastCall.pos, DefaultRadius)) = 2

\* C19 as stated: a load of the power plants, the fossil operations or the
\* renewables with a source file of the layer missing ends in a fatal error;
\* it neither completes nor installs a cache artifact.
C19_MissingSourceFatal ==
    [][/\ (load_power_plants /\ disk.power = Missing) => loads'.how = "fatal"
       /\ (load_fossil_ops /\ Missing \in {disk.coal, disk.refining, disk.oilgas}) =>
             loads'.how = "fatal"
       /\ (load_renewables /\ disk.wri = Missing) => loads'.how = "fatal"]_vars

\* C20: the table a load of the power plants installs has exactly one row
\* for each source_name among the source's rows of the latest year that have
\* a latitude and an emission value, and no other row; the row's emissions
\* are the sum over those rows, its type, country and latitude are the first
\* of them, and neither its latitude nor its emissions is missing.
C20_OneRowPerAsset ==
    [][load_power_plants =>
          LET src    == PowerData(disk.power.ver)
              ok     == {i \in DOMAIN src : ~IsNaN(src[i].lat)
                                               /\ ~IsNaN(src[i].emissions_quantity)}
              latest == CHOOSE y \in {src[i].year : i \in ok} :
                            \A i \in ok : src[i].year <= y
              cur    == {i \in ok : src[i].year = latest}
              Of(nm) == {i \in cur : src[i].source_name = nm}
              First(nm) == src[CHOOSE i \in Of(nm) : \A j \in Of(nm) : i <= j]
              Total(nm) == SumSeq([k \in 1..Cardinality(Of(nm)) |->
                                      src[SetToSortedSeq(Of(nm))[k]].emissions_quantity])
              df     == Get(POWER_PLANTS_DF')
          IN /\ {df[k].source_name : k \in DOMAIN df} = {src[i].source_name : i \in cur}
             /\ \A k \in DOMAIN df, l \in DOMAIN df :
                    df[k].source_name = df[l].source_name => k = l
             /\ \A k \in DOMAIN df :
                    /\ ~IsNaN(df[k].lat)
                    /\ ~IsNaN(df[k].emissions_quantity)
                    /\ df[k].emissions_quantity = Total(df[k].source_name)
                    /\ df[k].lat = First(df[k].source_name).lat
                    /\ df[k].source_type = First(df[k].source_name).source_type
                    /\ df[k].iso3_country = First(df[k].source_name).iso3_country]_vars

\* C20 witness: the loaded table holds de_coal once, with the sum (50 + 30)
\* of its two 2025 rows that have emissions, its third 2025 row (no
\* emissions) and its rows of earlier years left out
C20_TwoRowsSummed ==
    /\ loads = Took("power", "cold")
    /\ IsSome(POWER_PLANTS_DF)
    /\ Cardinality({k \in DOMAIN Get(POWER_PLANTS_DF) :
                       Get(POWER_PLANTS_DF)[k].source_name = "de_coal"}) = 1
    /\ \E k \in DOMAIN Get(POWER_PLANTS_DF) :
          /\ Get(POWER_PLANTS_DF)[k].source_name = "de_coal"
          /\ Get(POWER_PLANTS_DF)[k].emissions_quantity = 80

\* C21 as stated: with a model loaded, either path replaces the model's
\* prediction only for a point whose zone lookup resolved an intensity below
\* 100; for every other point (no zone resolved, the baseline being the
\* country's or the default, or a zone of 100 or more) compute_green_score
\* reports the model's prediction as ml_predicted_ci and predict_grid_batch
\* returns the model's prediction clamped at 0.
C21_BypassOnlyOnCleanZone ==
    [][IsSome(REGRESSION_MODEL) =>
         LET model == Get(REGRESSION_MODEL)
             c     == lastCall'
             Clean(zone) == ~IsNaN(zone) /\ zone < 100 * CiUnit
         IN /\ c.op \in {"compute_green_score", "predict_footprint"} =>
                 LET site == IF c.op = "predict_footprint"
                             THEN lastOut'.site_analysis ELSE lastOut'
                     zone == ScalarZoneCi(c.pos)
                     x    == FeatureVector(model,
                                 ScalarFeats(COUNTRY_TRENDS, c.pos, site.country_iso3, zone,
                                             ScalarLocal(c.pos, c.radius_km)))
                 IN ~Clean(zone) => site.ml_predicted_ci = Round2(ModelScore(model, x))
            /\ c.op = "predict_grid_batch" =>
                 \A i \in DOMAIN c.lats :
                    LET pos  == c.lats[i]
                        zone == BatchZoneCi(pos)
                        x    == FeatureVector(model,
                                    BatchFeats(COUNTRY_TRENDS, pos, NearestCountry(pos), zone,
                                               BatchLocal(pos, c.radius_km, c.target_year,
                                                          FUEL_CACHE')))
                    IN ~Clean(zone) => lastOut'.ci[i] = NpMax0(ModelScore(model, x))]_vars

\* C22: in every interleaving of two loads of the power plants against the
\* same source, a process that has finished holds the table and trends a
\* solo load computes; a process that read a partially written artifact did
\* not install it; and once both have finished the file unpickles, to
\* exactly the solo load's table and trends under the source's current key.
C22_RaceHarmless ==
    /\ \A p \in DOMAIN race.proc :
          /\ race.proc[p].pc = "done" =>
                race.proc[p].data = Some(SoloLoad(disk.power.ver))
          /\ race.proc[p].saw = "partial" => race.proc[p].path # "cache"
    /\ (DOMAIN race.proc # {} /\ \A p \in DOMAIN race.proc : race.proc[p].pc = "done") =>
          /\ IsSome(race.file)
          /\ Unpickled(Get(race.file)) =
                {[readable |-> TRUE, key |-> PowerMtime(disk),
                  data |-> SoloLoad(disk.power.ver)]}

\* C22 witness: both processes took the cold path and wrote the file, one
\* of them after reading the file while the other was writing it
C22_ReadWhileWritten ==
    /\ DOMAIN race.proc # {}
    /\ \A p \in DOMAIN race.proc :
          race.proc[p].pc = "done" /\ race.proc[p].path = "cold"
    /\ \E p \in DOMAIN race.proc : race.proc[p].saw = "partial"

\* C23: in the trace of every predict_grid_batch call, no index query
\* follows a per-point step; every index present is queried on the whole
\* input array; no index operation is issued twice; and the calls on one
\* point and on more points issue the same number of queries when the same
\* kind of points (matched by a polygon or not) is asked.
C23_QueriesUpFront ==
    lastCall.op = "predict_grid_batch" =>
        LET tr == BatchTrace(lastCall.lats)
            q  == {k \in DOMAIN tr : tr[k].kind = "query"}
            pt == {k \in DOMAIN tr : tr[k].kind = "point"}
            Count(l) == Cardinality({k \in DOMAIN BatchTrace(l) :
                                       BatchTrace(l)[k].kind = "query"})
        IN /\ \A k \in q, j \in pt : k < j
           /\ Cardinality(pt) = Len(lastCall.lats)
           /\ \A k \in q, j \in q : tr[k].index = tr[j].index => k = j
           /\ \A k \in q : tr[k].index # "ZONE_POLY_TREE.nearest" =>
                               tr[k].n = Len(lastCall.lats)
           /\ \A i \in DOMAIN lastCall.lats :
                  Count(<<lastCall.lats[i]>>) <= Cardinality(q)
           /\ \E i \in DOMAIN lastCall.lats :
                  Count(<<lastCall.lats[i]>>) = Cardinality(q)

\* C23 witness: a call on two points issued the eight queries a call on
\* one of them issues, all before the first point's features
C23_TwoPointsEightQueries ==
    /\ lastCall.op = "predict_grid_batch"
    /\ Len(lastCall.lats) = 2
    /\ IsSome(ZONE_POLYGONS) /\ IsSome(EMAPS_ZONES)
    /\ Len(BatchTrace(lastCall.lats)) = 10
    /\ BatchTrace(lastCall.lats)[8] = IndexQuery("ZONE_POLY_TREE.query", 2)
    /\ BatchTrace(lastCall.lats)[9] = PointStep(1)
    /\ Len(BatchTrace(<<lastCall.lats[1]>>)) = 9

\* C24 as stated: in a predict_grid_batch call with a target year, for every
\* point with a plant in range, the coal and clean fractions are taken over
\* the in-range plants whose factor 1 + trend_b * (target_year - 2024) is
\* positive and the in-range renewables, every such plant being counted;
\* and they are 0 when that set is empty.
C24_RetiredLeftOut ==
    (lastCall.op = "predict_grid_batch" /\ lastCall.target_year # Nil) =>
        \A i \in DOMAIN lastCall.lats :
            LET pos  == lastCall.lats[i]
                rows == Get(POWER_PLANTS_DF)
                idx  == InRadius(PlantLat(rows), pos, lastCall.radius_km)
                live == {k \in DOMAIN idx :
                           FracUnit + rows[idx[k]].trend_b
                                        * (Get(lastCall.target_year) - 2024) > 0}
                Cat(k) == ClassifyCached(FUEL_CACHE, rows[idx[k]].source_type)
                coal   == Cardinality({k \in live : Cat(k) = "coal"})
                fossil == Cardinality({k \in live : Cat(k) \in FossilCats})
                total  == Cardinality(live) + Len(RenewNear(pos, lastCall.radius_km))
                loc    == BatchLocal(pos, lastCall.radius_km, lastCall.target_year,
                                     FUEL_CACHE)
            IN Len(idx) > 0 =>
                 IF total > 0
                 THEN /\ loc.local_pct_coal = Quot(coal * FracUnit, total)
                      /\ loc.local_pct_clean =
                            Max2(0, FracUnit - Quot(fossil * FracUnit, total))
                 ELSE loc.local_pct_coal = 0 /\ loc.local_pct_clean = 0

\* C26: in predict_grid_batch the per-country trend is the trend coefficient
\* of a point only when no power plant lies within the radius; with at least
\* one plant in range the coefficient is the capacity-weighted plant trend,
\* also when that trend is exactly 0.
C26_CountryTrendOnlyWithoutAssets ==
    lastCall.op = "predict_grid_batch" =>
        \A i \in DOMAIN lastCall.lats :
            LET loc == BatchLocal(lastCall.lats[i], lastCall.radius_km,
                                  lastCall.target_year, FUEL_CACHE)
            IN loc.plants_in_radius > 0 => lastOut.tb[i] = loc.local_trend_b

\* C25: for every plant the raw slope fitted by load_power_plants is the
\* ordinary-least-squares slope of its annual emissions against the year
\* over exactly its own years with data up to latest - 1, also when it has
\* no data for some of the fitted years.
C25_RawSlopeIsOls ==
    lastOut.op = "fit_trends" =>
        \A nm \in DOMAIN lastOut.b_raw :
            LET E == PivotRow(lastCall.raw, lastOut.latest - 1, nm)
            IN Cardinality(DOMAIN E) >= 2 => lastOut.b_raw[nm] = OlsSlope(E)

\* C29: the normalised trend coefficient of a plant has the sign of its raw
\* slope: negative for a declining series, positive for a rising one, 0 for
\* a zero slope, whatever the fitted intercept at the baseline year is.
C29_CoefficientKeepsSign ==
    lastOut.op = "fit_trends" =>
        \A nm \in DOMAIN lastOut.b :
            /\ (lastOut.b_raw[nm][1] < 0) = (lastOut.b[nm] < 0)
            /\ (lastOut.b_raw[nm][1] > 0) = (lastOut.b[nm] > 0)

\* C27: for every point and every set of polygons (overlapping polygons,
\* polygons without an estimate, points on a boundary, points within the
\* nearest-polygon threshold) batch_zone_ci resolves the zone intensity the
\* scalar lookup resolves, or both resolve none.
C27_ZoneLookupsAgree ==
    lastCall.op = "batch_zone_ci" => lastOut.zone_ci = ScalarZoneCi(lastCall.pos)

\* C28: for every query answered with a model loaded, no entry of the
\* feature vector handed to the model is NaN, whether or not a plant is in
\* range and whether or not a zone or country baseline resolves.
C28_NoNaNFeature ==
    [][IsSome(REGRESSION_MODEL) =>
         LET model == Get(REGRESSION_MODEL)
             c     == lastCall'
             Finite(x) == \A k \in DOMAIN x : ~IsNaN(x[k])
         IN /\ c.op \in {"compute_green_score", "predict_footprint"} =>
                 Finite(FeatureVector(model,
                     ScalarFeats(COUNTRY_TRENDS, c.pos,
                                 ScalarCountry(c.pos, c.disable_reverse_geocoder),
                                 ScalarZoneCi(c.pos), ScalarLocal(c.pos, c.radius_km))))
            /\ c.op = "predict_grid_batch" =>
                 \A i \in DOMAIN c.lats :
                    Finite(FeatureVector(model,
                        BatchFeats(COUNTRY_TRENDS, c.lats[i], NearestCountry(c.lats[i]),
                                   BatchZoneCi(c.lats[i]),
                                   BatchLocal(c.lats[i], c.radius_km, c.target_year,
                                              FUEL_CACHE'))))]_vars

\* C30: once load_codecarbon has run on a disk that holds a readable model,
\* the engine holds that model, whether or not the US-state and
\* Canadian-province files could be read.
C30_ModelLoadedWhenReadable ==
    (loads.op = "codecarbon" /\ disk.model # 0) =>
        REGRESSION_MODEL = Some(ModelData(disk.model))


=============================================================================
